---- MODULE Spec2Model ----
(***************************************************************************)
(* A model of go-fixedwidth: the tag parser and struct layout (tags.go),   *)
(* the raw values and the multibyte aware line builder (buff.go), the      *)
(* field encoder (encode.go) and the field extraction, value setters and   *)
(* streaming Decoder (decode.go).                                          *)
(*                                                                         *)
(* Strings are sequences of bytes (0..255).  Go's 0-based indices are kept *)
(* in the operators' parameters; the 1-based TLA+ sequences are reached    *)
(* through At, Slice and CopyInto.  A Go runtime panic (index or slice     *)
(* bounds out of range) is an explicit outcome: a builder or a result with *)
(* panic = TRUE.                                                           *)
(***************************************************************************)
EXTENDS Integers, Sequences, FiniteSets, TLC

\* ------------------------------------------------------------------ bounds

\* Positions of a line run from 1 to MaxPos.
MaxPos == 3
\* Field texts hold at most MaxText codepoints.
MaxText == 2
\* Fields of a scalar kind are up to MaxWidth columns wide.
MaxWidth == 5
\* The most bytes an input stream holds.
MaxInput == 4

\* ------------------------------------------------------------ Go slices

Min(a, b) == IF a < b THEN a ELSE b

\* s[i] of Go (0-based).
At(s, i) == s[i + 1]
\* s[lo:hi] of Go (0-based, hi exclusive); the caller checks the bounds.
Slice(s, lo, hi) == SubSeq(s, lo + 1, hi)
\* Whether s[lo:hi] is within bounds in Go.
SliceOk(s, lo, hi) == 0 <= lo /\ lo <= hi /\ hi <= Len(s)
\* copy(dst[at:], src) of Go: min(len(dst)-at, len(src)) bytes are copied.
CopyInto(dst, at, src) ==
  LET n == Min(Len(dst) - at, Len(src))
  IN [k \in 1..Len(dst) |-> IF k > at /\ k <= at + n THEN src[k - at] ELSE dst[k]]
\* strings.Repeat(string(c), n) for an ASCII byte c.
Repeat(c, n) == [k \in 1..n |-> c]

RECURSIVE Concat(_)
\* The concatenation of a sequence of strings.
Concat(ss) == IF ss = <<>> THEN <<>> ELSE Head(ss) \o Concat(Tail(ss))

\* ------------------------------------------------------------- UTF-8

IsCont(c) == c >= 128 /\ c <= 191

\* The size utf8.DecodeRuneInString reports for the rune at the head of s:
\* 0 for the empty string, 1 for ASCII and for a malformed sequence
\* (RuneError), else the length of the well formed sequence.
DecodeRuneSize(s) ==
  IF Len(s) = 0 THEN 0
  ELSE LET c == s[1] IN
    IF c < 128 THEN 1
    ELSE IF c >= 194 /\ c <= 223
      THEN IF Len(s) >= 2 /\ IsCont(s[2]) THEN 2 ELSE 1
    ELSE IF c >= 224 /\ c <= 239
      THEN IF /\ Len(s) >= 3
              /\ IsCont(s[2]) /\ IsCont(s[3])
              /\ (c = 224 => s[2] >= 160)
              /\ (c = 237 => s[2] <= 159)
           THEN 3 ELSE 1
    ELSE IF c >= 240 /\ c <= 244
      THEN IF /\ Len(s) >= 4
              /\ IsCont(s[2]) /\ IsCont(s[3]) /\ IsCont(s[4])
              /\ (c = 240 => s[2] >= 144)
              /\ (c = 244 => s[2] <= 143)
           THEN 4 ELSE 1
    ELSE 1

\* ------------------------------------------------------------- rawValue

\* rawValue{data, codepointIndices}; hasIdx tells a nil index from an empty one.
RawValue(data, hasIdx, idx) == [data |-> data, hasIdx |-> hasIdx, idx |-> idx]
\* rawValue{}
EmptyRaw == RawValue(<<>>, FALSE, <<>>)

RECURSIVE findFirstFrom(_, _)
findFirstFrom(data, i) ==
  IF i >= Len(data) THEN Len(data)
  ELSE IF (At(data, i) \div 128) % 2 = 1 THEN i
  ELSE findFirstFrom(data, i + 1)
\* A scan that finds a multibyte character at the head of every string.
findFirstAtHead(data) == 0
\* The index of the first byte with the high bit set, or len(data).
findFirstMultiByteChar(data) == findFirstFrom(data, 0)

RECURSIVE indexFrom(_, _, _)
\* The loop of newRawValue: append the offset of each codepoint from bytesIdx
\* on; err stands for the "Invalid codepoint" return.
indexFrom(data, bytesIdx, acc) ==
  IF bytesIdx >= Len(data) THEN [err |-> FALSE, idx |-> acc]
  ELSE LET size == DecodeRuneSize(Slice(data, bytesIdx, Len(data))) IN
    IF size = 0 THEN [err |-> TRUE, idx |-> <<>>]
    ELSE indexFrom(data, bytesIdx + size, Append(acc, bytesIdx))

\* newRawValue(data, useCodepointIndices): [err, v].
newRawValue(data, useCodepointIndices) ==
  IF ~useCodepointIndices THEN [err |-> FALSE, v |-> RawValue(data, FALSE, <<>>)]
  ELSE LET bytesIdx == findFirstMultiByteChar(data) IN
    IF bytesIdx < Len(data)
    THEN LET r == indexFrom(data, bytesIdx, [k \in 1..bytesIdx |-> k - 1]) IN
      IF r.err THEN [err |-> TRUE, v |-> EmptyRaw]
      ELSE [err |-> FALSE, v |-> RawValue(data, TRUE, r.idx)]
    ELSE [err |-> FALSE, v |-> RawValue(data, FALSE, <<>>)]

\* rawValue.len
rawLen(v) == IF ~v.hasIdx THEN Len(v.data) ELSE Len(v.idx)
\* rawValue.byteLen
rawByteLen(v) == Len(v.data)
\* rawValue.byteStartIndex
rawByteStartIndex(v, start) == IF ~v.hasIdx THEN start ELSE At(v.idx, start)
\* A byte end index that takes the codepoint index for a byte index.
rawByteEndIndexAsByte(v, end) == end
\* rawValue.byteEndIndex
rawByteEndIndex(v, end) ==
  IF ~v.hasIdx THEN end
  ELSE IF end = Len(v.idx) - 1 THEN Len(v.data) - 1
  ELSE At(v.idx, end + 1) - 1
\* rawValue.slice(start, end): [err, v]; called with 0 <= start <= end < len.
rawSlice(v, start, end) ==
  newRawValue(Slice(v.data, rawByteStartIndex(v, start), rawByteEndIndex(v, end) + 1),
              v.hasIdx)

\* ------------------------------------------------------------ lineBuilder

\* lineBuilder{data, codepointIndices}; panic marks a builder whose
\* construction or write ended in a runtime panic.
Builder(data, hasIdx, idx) ==
  [data |-> data, hasIdx |-> hasIdx, idx |-> idx, panic |-> FALSE]
PanicBuilder == [data |-> <<>>, hasIdx |-> FALSE, idx |-> <<>>, panic |-> TRUE]

IdxOk(s, i) == 0 <= i /\ i < Len(s)

\* newLineBuilder(len, cap, fillChar): data[0] = fillChar panics on an empty
\* line, and make panics when len > cap.
newLineBuilder(len, cap, fillChar) ==
  IF len < 0 \/ len > cap \/ len = 0 THEN PanicBuilder
  ELSE Builder([k \in 1..len |-> fillChar], FALSE, <<>>)

\* lineBuilder.initializeIndices
initializeIndices(b) ==
  [b EXCEPT !.hasIdx = TRUE, !.idx = [k \in 1..Len(b.data) |-> k - 1]]

\* Whether lineBuilder.byteEndIndex(end) stays within the index.
byteEndIndexOk(b, end) ==
  ~b.hasIdx \/ end = Len(b.idx) - 1 \/ IdxOk(b.idx, end + 1)
\* lineBuilder.byteEndIndex
byteEndIndex(b, end) ==
  IF ~b.hasIdx THEN end
  ELSE IF end = Len(b.idx) - 1 THEN Len(b.data) - 1
  ELSE At(b.idx, end + 1) - 1

\* lineBuilder.adjustByteSpan(end, diff), diff # 0.
adjustByteSpan(b, end, diff) ==
  IF b.panic \/ ~byteEndIndexOk(b, end) THEN PanicBuilder
  ELSE LET byteEnd == byteEndIndex(b, end)
           n == Len(b.data)
           fix == [i \in 1..Len(b.idx) |->
                     IF i - 1 >= end + 1 THEN b.idx[i] + diff ELSE b.idx[i]]
    IN IF diff < 0
       THEN IF ~SliceOk(b.data, byteEnd + diff, n) \/ ~SliceOk(b.data, byteEnd, n)
            THEN PanicBuilder
            ELSE LET moved == CopyInto(b.data, byteEnd + diff, Slice(b.data, byteEnd, n))
                 IN [b EXCEPT !.data = Slice(moved, 0, n + diff), !.idx = fix]
       ELSE LET grown == b.data \o Repeat(32, diff) IN
            IF ~SliceOk(grown, byteEnd + diff, n + diff) \/ ~SliceOk(grown, byteEnd, n + diff)
            THEN PanicBuilder
            ELSE [b EXCEPT !.data = CopyInto(grown, byteEnd + diff,
                                             Slice(grown, byteEnd, n + diff)),
                           !.idx = fix]

\* lineBuilder.correctIndices(start, value)
correctIndices(b, start, value) ==
  IF b.panic \/ ~byteEndIndexOk(b, start - 1) THEN PanicBuilder
  ELSE LET firstIndex == byteEndIndex(b, start - 1) + 1
           n == rawLen(value)
    IN IF n > 0 /\ ~IdxOk(b.idx, start + n - 1) THEN PanicBuilder
       ELSE [b EXCEPT !.idx = [i \in 1..Len(b.idx) |->
               IF i - 1 >= start /\ i - 1 < start + n
               THEN IF ~value.hasIdx THEN firstIndex + (i - 1 - start)
                    ELSE firstIndex + At(value.idx, i - 1 - start)
               ELSE b.idx[i]]]

\* The multibyte path of WriteValue, after the indices are initialized.
writeValueIndexed(b, start, value) ==
  LET end == start + rawLen(value) - 1 IN
  IF ~IdxOk(b.idx, start) \/ ~byteEndIndexOk(b, end) THEN PanicBuilder
  ELSE LET byteStart == At(b.idx, start)
           byteEnd0 == byteEndIndex(b, end)
    IN IF ~SliceOk(b.data, byteStart, byteEnd0 + 1) THEN PanicBuilder
       ELSE LET byteDiff == rawByteLen(value) - (byteEnd0 + 1 - byteStart)
                b1 == IF byteDiff # 0 THEN adjustByteSpan(b, end, byteDiff) ELSE b
         IN IF b1.panic THEN PanicBuilder
            ELSE LET byteEnd == byteEndIndex(b1, end) IN
              IF ~SliceOk(b1.data, byteStart, byteEnd + 1) THEN PanicBuilder
              ELSE LET n == Min(byteEnd + 1 - byteStart, Len(value.data))
                       b2 == [b1 EXCEPT !.data = [k \in 1..Len(b1.data) |->
                                IF k > byteStart /\ k <= byteStart + n
                                THEN value.data[k - byteStart] ELSE b1.data[k]]]
                IN IF byteDiff # 0 \/ value.hasIdx
                   THEN correctIndices(b2, start, value)
                   ELSE b2

\* lineBuilder.WriteValue(start, value)
WriteValue(b, start, value) ==
  IF b.panic THEN PanicBuilder
  ELSE IF ~b.hasIdx /\ ~value.hasIdx
    THEN IF ~SliceOk(b.data, start, Len(b.data)) THEN PanicBuilder
         ELSE [b EXCEPT !.data = CopyInto(b.data, start, value.data)]
  ELSE writeValueIndexed(IF ~b.hasIdx THEN initializeIndices(b) ELSE b, start, value)

\* lineBuilder.WriteASCII(start, data)
WriteASCII(b, start, data) == WriteValue(b, start, newRawValue(data, FALSE).v)

\* lineBuilder.AsRawValue
AsRawValue(b) == RawValue(b.data, b.hasIdx, b.idx)

\* ---------------------------------------------------------------- strconv

IsDigit(c) == c >= 48 /\ c <= 57

RECURSIVE FormatNat(_)
\* The decimal digits of n >= 0.
FormatNat(n) == IF n < 10 THEN <<48 + n>> ELSE Append(FormatNat(n \div 10), 48 + (n % 10))
\* strconv.Itoa
Itoa(n) == IF n < 0 THEN <<45>> \o FormatNat(-n) ELSE FormatNat(n)
\* strconv.FormatUint(n, 10)
FormatUint(n) == FormatNat(n)
\* A FormatBool that writes "yes" and "no".
FormatBoolYesNo(t) == IF t THEN <<121, 101, 115>> ELSE <<110, 111>>
\* strconv.FormatBool
FormatBool(t) == IF t THEN <<116, 114, 117, 101>> ELSE <<102, 97, 108, 115, 101>>

RECURSIVE ParseDigits(_, _)
\* The number a string of decimal digits denotes (acc holds the part read).
ParseDigits(s, acc) ==
  IF s = <<>> THEN acc ELSE ParseDigits(Tail(s), 10 * acc + (Head(s) - 48))
AllDigits(s) == Len(s) > 0 /\ \A k \in 1..Len(s) : IsDigit(s[k])

\* strconv.ParseUint(s, 10, 64) on strings short of overflow: [ok, n].
ParseUint(s) ==
  IF AllDigits(s) THEN [ok |-> TRUE, n |-> ParseDigits(s, 0)] ELSE [ok |-> FALSE, n |-> 0]
\* An Atoi that skips spaces.
AtoiSkippingSpaces(s) ==
  LET t == SelectSeq(s, LAMBDA c : c # 32) IN
  IF Len(t) > 0 /\ t[1] \in {43, 45}
  THEN LET r == ParseUint(Tail(t)) IN
       [ok |-> r.ok, n |-> IF t[1] = 45 THEN 0 - r.n ELSE r.n]
  ELSE ParseUint(t)
\* strconv.Atoi on strings short of overflow: an optional sign, then digits.
Atoi(s) ==
  IF Len(s) > 0 /\ s[1] \in {43, 45}
  THEN LET r == ParseUint(Tail(s)) IN
       [ok |-> r.ok, n |-> IF s[1] = 45 THEN 0 - r.n ELSE r.n]
  ELSE ParseUint(s)

RECURSIVE TrimZeros(_)
\* A fraction's digits without the zeros at their end.
TrimZeros(d) ==
  IF d # <<>> /\ d[Len(d)] = 48 THEN TrimZeros(SubSeq(d, 1, Len(d) - 1)) ELSE d
\* strconv.ParseFloat(s, bitSize) on the decimal texts with no exponent, both
\* bit sizes alike on texts this short: an optional sign, then digits with at
\* most one point among them, one digit at least: [ok, n, frac, neg] for the
\* whole part n, the digits of the fraction and the sign bit.
ParseFloat(s) ==
  LET signed == Len(s) > 0 /\ s[1] \in {43, 45}
      body == IF signed THEN Tail(s) ELSE s
      dots == {k \in 1..Len(body) : body[k] = 46}
      dot == IF dots = {} THEN Len(body) + 1 ELSE CHOOSE k \in dots : TRUE
      whole == SubSeq(body, 1, dot - 1)
      frac == SubSeq(body, dot + 1, Len(body))
  IN IF /\ Cardinality(dots) <= 1
        /\ \A k \in 1..Len(body) : IsDigit(body[k]) \/ body[k] = 46
        /\ Len(whole) + Len(frac) > 0
     THEN [ok |-> TRUE, n |-> ParseDigits(whole, 0), frac |-> TrimZeros(frac),
           neg |-> signed /\ s[1] = 45]
     ELSE [ok |-> FALSE, n |-> 0, frac |-> <<>>, neg |-> FALSE]
\* strconv.FormatFloat(f, 'f', 2, bitSize): the sign of a negative value, of
\* a negative zero too, the whole part, a point and two decimals, rounded to
\* the nearest (up when what follows the two decimals is more than half a
\* hundredth; no text the model decodes lies halfway).
FormatFloat(n, frac, neg) ==
  LET digit(k) == IF k <= Len(frac) THEN frac[k] - 48 ELSE 0
      up == \/ digit(3) > 5
            \/ digit(3) = 5 /\ \E k \in 4..Len(frac) : frac[k] # 48
      h == 100 * n + 10 * digit(1) + digit(2) + (IF up THEN 1 ELSE 0)
  IN (IF neg THEN <<45>> ELSE <<>>) \o FormatNat(h \div 100)
     \o <<46, 48 + ((h \div 10) % 10), 48 + (h % 10)>>

\* The strings strconv.ParseBool accepts as true and as false.
TrueTexts == {<<49>>, <<116>>, <<84>>, <<84, 82, 85, 69>>, <<116, 114, 117, 101>>,
              <<84, 114, 117, 101>>}
FalseTexts == {<<48>>, <<102>>, <<70>>, <<70, 65, 76, 83, 69>>, <<102, 97, 108, 115, 101>>,
               <<70, 97, 108, 115, 101>>}
\* strconv.ParseBool: [ok, t].
ParseBool(s) ==
  IF s \in TrueTexts THEN [ok |-> TRUE, t |-> TRUE]
  ELSE IF s \in FalseTexts THEN [ok |-> TRUE, t |-> FALSE]
  ELSE [ok |-> FALSE, t |-> FALSE]

\* ----------------------------------------------------------------- format

\* The alignment constants of format.go, as the tag spells them.
defaultAlignment == <<100, 101, 102, 97, 117, 108, 116>>
right == <<114, 105, 103, 104, 116>>
left == <<108, 101, 102, 116>>
\* defaultPadChar: a space.
defaultPadChar == 32
Format(alignment, padChar) == [alignment |-> alignment, padChar |-> padChar]
defaultFormat == Format(defaultAlignment, defaultPadChar)
\* The zero value of format, held by a field spec that was never filled in.
zeroFormat == Format(<<>>, 0)
\* alignment.Valid
alignmentValid(a) == a \in {defaultAlignment, right, left}

\* ------------------------------------------------------------------- tags

RECURSIVE splitFrom(_, _, _)
splitFrom(s, sep, cur) ==
  IF s = <<>> THEN <<cur>>
  ELSE IF Head(s) = sep THEN <<cur>> \o splitFrom(Tail(s), sep, <<>>)
  ELSE splitFrom(Tail(s), sep, Append(cur, Head(s)))
\* strings.Split(tag, ","): the parts between the commas (one part, the empty
\* string, for an empty tag).
SplitComma(tag) == splitFrom(tag, 44, <<>>)

TagResult(startPos, endPos, format, ok) ==
  [startPos |-> startPos, endPos |-> endPos, format |-> format, ok |-> ok]
invalidTag == TagResult(0, 0, defaultFormat, FALSE)

\* The padding character switch of parseTag on the fourth part.
padCharOf(v, format) ==
  IF v = <<95>> THEN [format EXCEPT !.padChar = 32]
  ELSE IF v = <<95, 95>> THEN [format EXCEPT !.padChar = 95]
  ELSE IF Len(v) > 0 THEN [format EXCEPT !.padChar = v[1]]
  ELSE format

\* parseTag(tag): (startPos, endPos, format, ok).
parseTag(tag) ==
  LET parts == SplitComma(tag) IN
  IF Len(parts) < 2 \/ Len(parts) > 4 THEN invalidTag
  ELSE LET s == Atoi(parts[1])
           e == Atoi(parts[2])
    IN IF ~s.ok THEN invalidTag
       ELSE IF ~e.ok THEN invalidTag
       ELSE IF s.n > e.n \/ (s.n = 0 /\ e.n = 0) THEN invalidTag
       ELSE LET f1 == IF Len(parts) >= 3 /\ alignmentValid(parts[3])
                      THEN [defaultFormat EXCEPT !.alignment = parts[3]]
                      ELSE defaultFormat
                f2 == IF Len(parts) >= 4 THEN padCharOf(parts[4], f1) ELSE f1
         IN TagResult(s.n, e.n, f2, TRUE)

\* A struct field's type, by the encoder and setter newValueEncoder and
\* newValueSetter resolve for it; "func" is a type with neither.
Kinds == {"string", "int", "int8", "int16", "uint", "uint8", "float32", "float64", "bool",
          "func", "text", "*string", "*int", "*text", "struct"}

\* fieldSpec{startPos, endPos, encoder, codepointEncoder, setter, format, ok};
\* kind stands for the three converters resolved from the field's type.
FieldSpec(startPos, endPos, format, ok, kind) ==
  [startPos |-> startPos, endPos |-> endPos, format |-> format, ok |-> ok, kind |-> kind]
\* The zero fieldSpec buildStructSpec leaves for a field whose tag is invalid.
zeroFieldSpec == FieldSpec(0, 0, zeroFormat, FALSE, "none")
\* fieldSpec.len
specLen(spec) == spec.endPos - spec.startPos + 1

\* A field spec that takes the positions parseTag returns whether or not it
\* accepted the tag.
fieldSpecOfAnyTag(f) ==
  LET r == parseTag(f.tag) IN FieldSpec(r.startPos, r.endPos, r.format, TRUE, f.kind)

\* The field spec buildStructSpec computes for one struct field [tag, kind].
fieldSpecOf(f) ==
  LET r == parseTag(f.tag) IN
  IF ~r.ok THEN zeroFieldSpec
  ELSE FieldSpec(r.startPos, r.endPos, r.format, TRUE, f.kind)

RECURSIVE maxEndPos(_, _)
\* The running maximum of buildStructSpec's loop over ss.ll.
maxEndPos(fieldSpecs, ll) ==
  IF fieldSpecs = <<>> THEN ll
  ELSE maxEndPos(Tail(fieldSpecs),
                 IF Head(fieldSpecs).ok /\ Head(fieldSpecs).endPos > ll
                 THEN Head(fieldSpecs).endPos ELSE ll)

\* buildStructSpec(t) for a struct type t, a sequence of fields [tag, kind].
buildStructSpec(t) ==
  LET fieldSpecs == [i \in 1..Len(t) |-> fieldSpecOf(t[i])]
  IN [ll |-> maxEndPos(fieldSpecs, 0), fieldSpecs |-> fieldSpecs]

\* ----------------------------------------------------------------- values

\* A field value: s for a string, n for an int or uint, t for a bool; a float
\* has the whole part n, the digits of the fraction s and the sign bit t.
Val(kind, s, n, t) == [kind |-> kind, s |-> s, n |-> n, t |-> t]
StringVal(s) == Val("string", s, 0, FALSE)
IntVal(n) == Val("int", <<>>, n, FALSE)
UintVal(n) == Val("uint", <<>>, n, FALSE)
BoolVal(t) == Val("bool", <<>>, 0, t)
FuncVal == Val("func", <<>>, 0, FALSE)
\* A value of a type with UnmarshalText on its pointer and MarshalText on its
\* value, which keep the text as it is (the tests' EncodableString).
TextVal(s) == Val("text", s, 0, FALSE)
\* The pointer kinds: pointers to a string, to an int and to such a type.
PtrKinds == {"*string", "*int", "*text"}
\* The kind a pointer kind points to: t.Elem().
ElemKind(kind) ==
  CASE kind = "*string" -> "string" [] kind = "*int" -> "int" [] kind = "*text" -> "text"
\* A pointer: nil, or to elem.
PtrVal(kind, isNil, elem) == [kind |-> kind, nil |-> isNil, elem |-> elem]
NilPtr(kind) == PtrVal(kind, TRUE, Val(ElemKind(kind), <<>>, 0, FALSE))
\* The record type of a field of kind "struct": A in column 1 and B in columns
\* 2-3 of the field's interval, both strings with the default format.
InnerType == <<[tag |-> <<49, 44, 49>>, kind |-> "string"],
               [tag |-> <<50, 44, 51>>, kind |-> "string"]>>
\* A record held in a field of kind "struct".
StructVal(fields) == [kind |-> "struct", fields |-> fields]
\* reflect.Zero of a field's type.
ZeroVal(kind) ==
  IF kind \in PtrKinds THEN NilPtr(kind)
  ELSE IF kind = "struct"
  THEN StructVal([i \in 1..Len(InnerType) |-> Val(InnerType[i].kind, <<>>, 0, FALSE)])
  ELSE Val(kind, <<>>, 0, FALSE)

\* ----------------------------------------------------------------- encode

RECURSIVE encodeValue(_, _)
RECURSIVE structEncode(_, _, _)
\* What structEncoder returned, as a field's valueEncoder returns it: the
\* builder's raw value, the error of the field that failed, or a panic.
structEncoded(r) ==
  IF r.status = "ok" THEN [err |-> "none", v |-> r.raw]
  ELSE [err |-> IF r.status = "panic" THEN "panic" ELSE "field", v |-> EmptyRaw]
\* The valueEncoder newValueEncoder resolves for the value's type, applied to
\* it: [err, v] with err one of "none", "codepoint", "type", "field" for the
\* error of a nested record's field, and "panic" for a runtime panic. A type
\* with MarshalText on its value gets textMarshalerEncoder, and so does a
\* pointer to it, whose MarshalText dereferences the pointer; the other
\* pointers get ptrInterfaceEncoder, and a record gets structEncoder.
encodeValue(val, useCodepointIndices) ==
  LET raw(data, cp) == LET r == newRawValue(data, cp)
                       IN [err |-> IF r.err THEN "codepoint" ELSE "none", v |-> r.v]
  IN CASE val.kind = "string" -> raw(val.s, useCodepointIndices)
       [] val.kind = "struct" ->
            structEncoded(structEncode(buildStructSpec(InnerType), val.fields,
                                       useCodepointIndices))
       [] val.kind = "text" -> raw(val.s, useCodepointIndices)
       [] val.kind = "*text" ->
            IF val.nil THEN [err |-> "panic", v |-> EmptyRaw]
            ELSE raw(val.elem.s, useCodepointIndices)
       [] val.kind \in {"*string", "*int"} ->
            IF val.nil THEN [err |-> "none", v |-> EmptyRaw]
            ELSE encodeValue(val.elem, useCodepointIndices)
       [] val.kind \in {"int", "int8", "int16"} -> raw(Itoa(val.n), FALSE)
       [] val.kind \in {"float32", "float64"} -> raw(FormatFloat(val.n, val.s, val.t), FALSE)
       [] val.kind \in {"uint", "uint8"} -> raw(FormatUint(val.n), FALSE)
       [] val.kind = "bool" -> raw(FormatBool(val.t), FALSE)
       [] OTHER -> [err |-> "type", v |-> EmptyRaw]

\* The writes of a Write that pads every short text that is not right
\* aligned, default alignment with the space pad included.
writeRawPadded(b, value, spec) ==
  LET format == spec.format
      startIndex == spec.startPos - 1
      short == rawLen(value) < specLen(spec)
      padding == Repeat(format.padChar, specLen(spec) - rawLen(value))
  IN IF short /\ format.alignment = right
     THEN [err |-> "none",
           b |-> WriteValue(WriteASCII(b, startIndex, padding),
                            startIndex + Len(padding), value)]
     ELSE IF short
     THEN [err |-> "none",
           b |-> WriteASCII(WriteValue(b, startIndex, value),
                            startIndex + rawLen(value), padding)]
     ELSE LET cut == IF rawLen(value) > specLen(spec)
                     THEN rawSlice(value, 0, specLen(spec) - 1)
                     ELSE [err |-> FALSE, v |-> value]
          IN IF cut.err THEN [err |-> "codepoint", b |-> b]
             ELSE [err |-> "none", b |-> WriteValue(b, startIndex, cut.v)]

\* The writes of valueEncoder.Write once the value is encoded: [err, b].
writeRaw(b, value, spec) ==
  LET format == spec.format
      startIndex == spec.startPos - 1
      short == rawLen(value) < specLen(spec)
      padding == Repeat(format.padChar, specLen(spec) - rawLen(value))
  IN IF short /\ format.alignment = right
     THEN [err |-> "none",
           b |-> WriteValue(WriteASCII(b, startIndex, padding),
                            startIndex + Len(padding), value)]
     ELSE IF short /\ (format.alignment = left
                       \/ (format.alignment = defaultAlignment /\ format.padChar # 32))
     THEN [err |-> "none",
           b |-> WriteASCII(WriteValue(b, startIndex, value),
                            startIndex + rawLen(value), padding)]
     ELSE LET cut == IF rawLen(value) > specLen(spec)
                     THEN rawSlice(value, 0, specLen(spec) - 1)
                     ELSE [err |-> FALSE, v |-> value]
          IN IF cut.err THEN [err |-> "codepoint", b |-> b]
             ELSE [err |-> "none", b |-> WriteValue(b, startIndex, cut.v)]

\* valueEncoder.Write(b, v, spec): [err, b].
Write(b, val, spec, useCodepointIndices) ==
  LET written(e) == IF e.err = "panic" THEN [err |-> "none", b |-> PanicBuilder]
                    ELSE IF e.err # "none" THEN [err |-> e.err, b |-> b]
                    ELSE writeRaw(b, e.v, spec)
  IN written(encodeValue(val, useCodepointIndices))

\* The builder structEncoder starts from: ll codepoints of spaces, with 10%
\* headroom in codepoint mode.
structBuilder(ss, useCodepointIndices) ==
  newLineBuilder(ss.ll,
                 IF useCodepointIndices THEN (11 * ss.ll) \div 10 + 1 ELSE ss.ll,
                 32)

RECURSIVE encodeFields(_, _, _, _, _)
\* The loop of structEncoder from field i on: [status, b] with status one of
\* "ok", "error", "panic".
encodeFields(ss, rec, i, b, useCodepointIndices) ==
  IF b.panic THEN [status |-> "panic", b |-> b]
  ELSE IF i > Len(ss.fieldSpecs) THEN [status |-> "ok", b |-> b]
  ELSE IF ~ss.fieldSpecs[i].ok THEN encodeFields(ss, rec, i + 1, b, useCodepointIndices)
  ELSE LET after(wr) == IF wr.err # "none" THEN [status |-> "error", b |-> b]
                         ELSE encodeFields(ss, rec, i + 1, wr.b, useCodepointIndices)
       IN after(Write(b, rec[i], ss.fieldSpecs[i], useCodepointIndices))

\* structEncoder(useCodepointIndices)(v) for a record rec, with ss the layout
\* cachedStructSpec returned for its type: [status, line, raw], raw the
\* builder's AsRawValue and line its data.
structEncode(ss, rec, useCodepointIndices) ==
  LET returned(r) ==
        [status |-> r.status, line |-> IF r.status = "ok" THEN r.b.data ELSE <<>>,
         raw |-> IF r.status = "ok" THEN AsRawValue(r.b) ELSE EmptyRaw]
  IN returned(encodeFields(ss, rec, 1, structBuilder(ss, useCodepointIndices),
                           useCodepointIndices))

\* ----------------------------------------------------------------- decode

RECURSIVE TrimLeft(_, _)
\* strings.TrimLeft(s, string(c)) for an ASCII byte c.
TrimLeft(s, c) == IF s # <<>> /\ Head(s) = c THEN TrimLeft(Tail(s), c) ELSE s
RECURSIVE TrimRight(_, _)
\* strings.TrimRight(s, string(c)) for an ASCII byte c.
TrimRight(s, c) ==
  IF s # <<>> /\ s[Len(s)] = c THEN TrimRight(SubSeq(s, 1, Len(s) - 1), c) ELSE s
\* strings.Trim(s, string(c)) for an ASCII byte c.
Trim(s, c) == TrimRight(TrimLeft(s, c), c)

\* A trimFunc that trims both sides whatever the alignment.
trimBoth(format, s) == Trim(s, format.padChar)

\* The trimFunc rawValueFromLine picks for the format's alignment.
trimFunc(format, s) ==
  IF format.alignment = left THEN TrimRight(s, format.padChar)
  ELSE IF format.alignment = right THEN TrimLeft(s, format.padChar)
  ELSE Trim(s, format.padChar)

\* A rawValueFromLine that takes the positions for byte positions whether or
\* not the line indexes its codepoints.
rawValueFromLineBytes(value, startPos, endPos, format) ==
  IF Len(value.data) = 0 \/ startPos > Len(value.data)
  THEN [panic |-> FALSE, v |-> EmptyRaw]
  ELSE LET e == IF endPos > Len(value.data) THEN Len(value.data) ELSE endPos IN
    IF ~SliceOk(value.data, startPos - 1, e) THEN [panic |-> TRUE, v |-> EmptyRaw]
    ELSE [panic |-> FALSE,
          v |-> RawValue(trimFunc(format, Slice(value.data, startPos - 1, e)),
                         FALSE, <<>>)]

\* rawValueFromLine(value, startPos, endPos, format): [panic, v].
rawValueFromLine(value, startPos, endPos, format) ==
  IF value.hasIdx
  THEN IF Len(value.idx) = 0 \/ startPos > Len(value.idx)
       THEN [panic |-> FALSE, v |-> EmptyRaw]
       ELSE IF endPos >= Len(value.idx)
       THEN IF ~SliceOk(value.idx, startPos - 1, Len(value.idx)) THEN [panic |-> TRUE, v |-> EmptyRaw]
            ELSE LET relevantIndices == Slice(value.idx, startPos - 1, Len(value.idx)) IN
              IF ~IdxOk(relevantIndices, 0)
                 \/ ~SliceOk(value.data, relevantIndices[1], Len(value.data))
              THEN [panic |-> TRUE, v |-> EmptyRaw]
              ELSE [panic |-> FALSE,
                    v |-> RawValue(trimFunc(format, Slice(value.data, relevantIndices[1],
                                                          Len(value.data))),
                                   TRUE, relevantIndices)]
       ELSE IF ~SliceOk(value.idx, startPos - 1, endPos) THEN [panic |-> TRUE, v |-> EmptyRaw]
            ELSE LET relevantIndices == Slice(value.idx, startPos - 1, endPos) IN
              IF ~IdxOk(relevantIndices, 0)
                 \/ ~SliceOk(value.data, relevantIndices[1], At(value.idx, endPos))
              THEN [panic |-> TRUE, v |-> EmptyRaw]
              ELSE [panic |-> FALSE,
                    v |-> RawValue(trimFunc(format, Slice(value.data, relevantIndices[1],
                                                          At(value.idx, endPos))),
                                   TRUE, relevantIndices)]
  ELSE IF Len(value.data) = 0 \/ startPos > Len(value.data)
       THEN [panic |-> FALSE, v |-> EmptyRaw]
       ELSE LET e == IF endPos > Len(value.data) THEN Len(value.data) ELSE endPos IN
         IF ~SliceOk(value.data, startPos - 1, e) THEN [panic |-> TRUE, v |-> EmptyRaw]
         ELSE [panic |-> FALSE,
               v |-> RawValue(trimFunc(format, Slice(value.data, startPos - 1, e)),
                              FALSE, <<>>)]

\* What reflect.Value.SetInt(x) stores in a signed integer of the given width:
\* x's low bits, as the conversion int8(x) keeps them.
SetInt(x, bits) == ((x + 2 ^ (bits - 1)) % (2 ^ bits)) - 2 ^ (bits - 1)
\* What reflect.Value.SetUint(x) stores in an unsigned integer of that width.
SetUint(x, bits) == x % (2 ^ bits)

RECURSIVE setValue(_, _, _)
RECURSIVE structSet(_, _, _)
\* What structSetter returned, as a field's valueSetter returns it.
structSetResult(cur, r) ==
  [err |-> r.status = "error", panic |-> r.status = "panic",
   val |-> [cur EXCEPT !.fields = r.v]]
\* The valueSetter newValueSetter resolves for a field of the given kind,
\* applied to the field's current value cur and the raw text: [err, panic,
\* val]. A type whose pointer has UnmarshalText gets textUnmarshalerSetter, be
\* it the field's type ("text") or what the field points to ("*text"); the
\* other pointers get ptrSetter, and a record gets structSetter, which is
\* handed the raw value as its line.
setValue(kind, cur, raw) ==
  CASE kind = "string" -> [err |-> FALSE, panic |-> FALSE, val |-> [cur EXCEPT !.s = raw.data]]
    [] kind = "struct" -> structSetResult(cur, structSet(buildStructSpec(InnerType), cur.fields, raw))
    [] kind = "text" -> [err |-> FALSE, panic |-> FALSE, val |-> [cur EXCEPT !.s = raw.data]]
    [] kind = "*text" ->
         LET elem == IF cur.nil THEN ZeroVal("text") ELSE cur.elem IN
         [err |-> FALSE, panic |-> FALSE, val |-> PtrVal(kind, FALSE, [elem EXCEPT !.s = raw.data])]
    [] kind \in {"*string", "*int"} ->
         IF Len(raw.data) <= 0 THEN [err |-> FALSE, panic |-> FALSE, val |-> NilPtr(kind)]
         ELSE LET pointed(r) ==
                    [err |-> r.err, panic |-> r.panic, val |-> PtrVal(kind, FALSE, r.val)]
              IN pointed(setValue(ElemKind(kind),
                                  IF cur.nil THEN ZeroVal(ElemKind(kind)) ELSE cur.elem, raw))
    [] kind = "int" ->
         IF Len(raw.data) < 1 THEN [err |-> FALSE, panic |-> FALSE, val |-> cur]
         ELSE LET r == Atoi(raw.data) IN
              IF ~r.ok THEN [err |-> TRUE, panic |-> FALSE, val |-> cur]
              ELSE [err |-> FALSE, panic |-> FALSE, val |-> [cur EXCEPT !.n = r.n]]
    [] kind = "int8" ->
         IF Len(raw.data) < 1 THEN [err |-> FALSE, panic |-> FALSE, val |-> cur]
         ELSE LET r == Atoi(raw.data) IN
              IF ~r.ok THEN [err |-> TRUE, panic |-> FALSE, val |-> cur]
              ELSE [err |-> FALSE, panic |-> FALSE, val |-> [cur EXCEPT !.n = SetInt(r.n, 8)]]
    [] kind = "int16" ->
         IF Len(raw.data) < 1 THEN [err |-> FALSE, panic |-> FALSE, val |-> cur]
         ELSE LET r == Atoi(raw.data) IN
              IF ~r.ok THEN [err |-> TRUE, panic |-> FALSE, val |-> cur]
              ELSE [err |-> FALSE, panic |-> FALSE, val |-> [cur EXCEPT !.n = SetInt(r.n, 16)]]
    [] kind \in {"float32", "float64"} ->
         IF Len(raw.data) < 1 THEN [err |-> FALSE, panic |-> FALSE, val |-> cur]
         ELSE LET r == ParseFloat(raw.data) IN
              IF ~r.ok THEN [err |-> TRUE, panic |-> FALSE, val |-> cur]
              ELSE [err |-> FALSE, panic |-> FALSE,
                    val |-> [cur EXCEPT !.n = r.n, !.s = r.frac, !.t = r.neg]]
    [] kind = "uint" ->
         IF Len(raw.data) < 1 THEN [err |-> FALSE, panic |-> FALSE, val |-> cur]
         ELSE LET r == ParseUint(raw.data) IN
              IF ~r.ok THEN [err |-> TRUE, panic |-> FALSE, val |-> cur]
              ELSE [err |-> FALSE, panic |-> FALSE, val |-> [cur EXCEPT !.n = r.n]]
    [] kind = "uint8" ->
         IF Len(raw.data) < 1 THEN [err |-> FALSE, panic |-> FALSE, val |-> cur]
         ELSE LET r == ParseUint(raw.data) IN
              IF ~r.ok THEN [err |-> TRUE, panic |-> FALSE, val |-> cur]
              ELSE [err |-> FALSE, panic |-> FALSE, val |-> [cur EXCEPT !.n = SetUint(r.n, 8)]]
    [] kind = "bool" ->
         IF Len(raw.data) = 0 THEN [err |-> FALSE, panic |-> FALSE, val |-> cur]
         ELSE LET r == ParseBool(raw.data) IN
              IF ~r.ok THEN [err |-> TRUE, panic |-> FALSE, val |-> cur]
              ELSE [err |-> FALSE, panic |-> FALSE, val |-> [cur EXCEPT !.t = r.t]]
    [] OTHER -> [err |-> TRUE, panic |-> FALSE, val |-> cur]

\* What a field that took no part in a decode hands to its converter: nothing.
NoRaw == [handed |-> FALSE, v |-> EmptyRaw]

\* An UnmarshalTypeError: its Value, the kind of its Type, and its Field as
\* the field's index; its Struct is the one record type in play.
UnmarshalTypeError(value, kind, field) == [Value |-> value, Type |-> kind, Field |-> field]
\* No UnmarshalTypeError.
NoTypeError == UnmarshalTypeError(<<>>, "none", 0)

RECURSIVE setFields(_, _, _, _, _)
\* The loop of structSetter from field i on, over the target record v:
\* [status, v, raws, uerr] with status one of "ok", "error", "panic", raws the
\* raw value handed to each field's setter and uerr the UnmarshalTypeError
\* returned with status "error".
setFields(ss, raw, i, v, raws) ==
  IF i > Len(ss.fieldSpecs)
  THEN [status |-> "ok", v |-> v, raws |-> raws, uerr |-> NoTypeError]
  ELSE IF ~ss.fieldSpecs[i].ok THEN setFields(ss, raw, i + 1, v, raws)
  ELSE LET fieldSpec == ss.fieldSpecs[i]
           set(r, raws1) ==
             IF r.panic
             THEN [status |-> "panic", v |-> [v EXCEPT ![i] = r.val], raws |-> raws1,
                   uerr |-> NoTypeError]
             ELSE IF r.err
             THEN [status |-> "error", v |-> [v EXCEPT ![i] = r.val], raws |-> raws1,
                   uerr |-> UnmarshalTypeError(raw.data, fieldSpec.kind, i)]
             ELSE setFields(ss, raw, i + 1, [v EXCEPT ![i] = r.val], raws1)
           cut(rv) ==
             IF rv.panic THEN [status |-> "panic", v |-> v, raws |-> raws, uerr |-> NoTypeError]
             ELSE set(setValue(fieldSpec.kind, v[i], rv.v),
                      [raws EXCEPT ![i] = [handed |-> TRUE, v |-> rv.v]])
    IN cut(rawValueFromLine(raw, fieldSpec.startPos, fieldSpec.endPos, fieldSpec.format))

\* structSetter(t)(v, raw) for a target record v, with ss the layout
\* cachedStructSpec(t) returned.
structSet(ss, v, raw) ==
  setFields(ss, raw, 1, v, [i \in 1..Len(ss.fieldSpecs) |-> NoRaw])

\* ---------------------------------------------------------------- scanner

RECURSIVE indexAt(_, _, _)
indexAt(data, sep, i) ==
  IF i + Len(sep) > Len(data) THEN -1
  ELSE IF SubSeq(data, i + 1, i + Len(sep)) = sep THEN i
  ELSE indexAt(data, sep, i + 1)
\* The 0-based index of the last sep in data, -1 when there is none.
bytesLastIndex(data, sep) ==
  LET at == {i \in 0..(Len(data) - Len(sep)) : SubSeq(data, i + 1, i + Len(sep)) = sep}
  IN IF at = {} THEN -1 ELSE CHOOSE i \in at : \A j \in at : j <= i
\* bytes.Index(data, sep): the 0-based index of the first sep in data, -1
\* when there is none.
bytesIndex(data, sep) == indexAt(data, sep, 0)

\* No token: the (0, nil, nil) a split function returns.
NoToken == [advance |-> 0, hasToken |-> FALSE, token |-> <<>>]

\* A split function that ends a line at the terminator's first byte.
scanOnFirstByte(term, data, eof) ==
  LET i == bytesIndex(data, <<term[1]>>) IN
  IF eof /\ Len(data) = 0 THEN NoToken
  ELSE IF i >= 0
  THEN [advance |-> i + 1, hasToken |-> TRUE, token |-> Slice(data, 0, i)]
  ELSE IF eof THEN [advance |-> Len(data), hasToken |-> TRUE, token |-> data]
  ELSE NoToken
\* Decoder.scan(data, atEOF) of a Decoder with line terminator term:
\* [advance, hasToken, token].
scan(term, data, eof) ==
  IF eof /\ Len(data) = 0 THEN NoToken
  ELSE LET i == bytesIndex(data, term) IN
       IF i >= 0
       THEN [advance |-> i + Len(term), hasToken |-> TRUE, token |-> Slice(data, 0, i)]
       ELSE IF eof
       THEN [advance |-> Len(data), hasToken |-> TRUE, token |-> data]
       ELSE NoToken

RECURSIVE scannerScan(_, _, _, _, _)
\* bufio.Scanner.Scan with Decoder.scan for split function, on a scanner that
\* holds sbuf, has seen the reader's end if eof, and whose reader holds rest
\* and hands out at most n bytes a Read: [ok, token, buf, unread, eof]. (Lines
\* stay far below bufio.MaxScanTokenSize.)
scannerScan(term, sbuf, rest, eof, n) ==
  LET r == IF sbuf # <<>> \/ eof THEN scan(term, sbuf, eof) ELSE NoToken IN
  IF r.hasToken
  THEN [ok |-> TRUE, token |-> r.token, buf |-> Slice(sbuf, r.advance, Len(sbuf)),
        unread |-> rest, eof |-> eof]
  ELSE IF eof
  THEN [ok |-> FALSE, token |-> <<>>, buf |-> <<>>, unread |-> rest, eof |-> TRUE]
  ELSE IF rest = <<>> THEN scannerScan(term, sbuf, rest, TRUE, n)
  ELSE LET k == Min(n, Len(rest)) IN
       scannerScan(term, sbuf \o SubSeq(rest, 1, k), SubSeq(rest, k + 1, Len(rest)),
                   FALSE, n)

\* ------------------------------------------------------------ one line

\* Decoder.readLine past the scanner: the line's raw value, then the setter:
\* [status, v, raws], status "codepoint" for newRawValue's error.
decodeLine(ss, v, line, useCodepointIndices) ==
  LET rv == newRawValue(line, useCodepointIndices) IN
  IF rv.err
  THEN [status |-> "codepoint", v |-> v, raws |-> [i \in 1..Len(ss.fieldSpecs) |-> NoRaw],
        uerr |-> NoTypeError]
  ELSE structSet(ss, v, rv.v)

\* ptrSetter(t)(v, raw) for the pointer to a record that Decode was handed.
\* On an empty line it calls nilSetter, whose v.Set panics: the pointer
\* reflect.ValueOf returned is not addressable.
ptrSetter(ss, v, raw) ==
  IF Len(raw.data) <= 0
  THEN [status |-> "panic", v |-> v, raws |-> [i \in 1..Len(ss.fieldSpecs) |-> NoRaw],
        uerr |-> NoTypeError]
  ELSE structSet(ss, v, raw)

\* Decoder.readLine past the scanner for the pointer Decode was handed.
decodePtrLine(ss, v, line, useCodepointIndices) ==
  LET rv == newRawValue(line, useCodepointIndices) IN
  IF rv.err
  THEN [status |-> "codepoint", v |-> v, raws |-> [i \in 1..Len(ss.fieldSpecs) |-> NoRaw],
        uerr |-> NoTypeError]
  ELSE ptrSetter(ss, v, rv.v)

\* Unmarshal(data, &v) for a record v: a Decoder over a bytes.Reader, which
\* hands out all of data in one Read, and one Decode; status "eof" when the
\* scanner finds no line.
unmarshal(ss, v, data, useCodepointIndices) ==
  LET s == scannerScan(<<10>>, <<>>, data, FALSE, Len(data)) IN
  IF ~s.ok
  THEN [status |-> "eof", v |-> v, raws |-> [i \in 1..Len(ss.fieldSpecs) |-> NoRaw],
        uerr |-> NoTypeError]
  ELSE decodePtrLine(ss, v, s.token, useCodepointIndices)

\* ----------------------------------------------------------------- inputs

\* The codepoints texts are made of: "a", "ø" (two bytes) and the space.
CpA == <<97>>
CpO == <<195, 184>>
CpSpace == <<32>>

RECURSIVE TextsOver(_, _)
\* The texts of at most n codepoints over an alphabet of codepoints.
TextsOver(alphabet, n) ==
  IF n = 0 THEN {<<>>}
  ELSE LET shorter == TextsOver(alphabet, n - 1)
       IN shorter \cup {t \o c : t \in shorter, c \in alphabet}

Texts == TextsOver({CpA, CpO, CpSpace}, MaxText)
ShortTexts == {<<>>, CpA, CpO}

\* ",left" and the other format parts a tag may end in: every alignment, with
\* the default pad character and with '#'.
FormatSuffixes ==
  {<<>>, <<44>> \o left, <<44>> \o right,
   <<44>> \o defaultAlignment \o <<44, 35>>, <<44>> \o left \o <<44, 35>>,
   <<44>> \o right \o <<44, 35>>}
\* The tag "s,e".
TagOf(s, e) == Itoa(s) \o <<44>> \o Itoa(e)
ValidTags ==
  {TagOf(s, e) \o suf : <<s, e>> \in {p \in (1..MaxPos) \X (1..MaxPos) : p[1] <= p[2]},
                        suf \in FormatSuffixes}
\* No tag at all, and "5": a tag with no end position.
InvalidTags == {<<>>, <<53>>}

Field(tag, kind) == [tag |-> tag, kind |-> kind]
\* Struct types of one string field, of one scalar field, and of two fields.
StringTypes == {<<Field(t, "string")>> : t \in ValidTags \cup InvalidTags}
ScalarTypes ==
  {<<Field(TagOf(p[1], p[1] + p[2] - 1) \o suf, k)>> :
     p \in (1..2) \X (1..MaxWidth), suf \in FormatSuffixes,
     k \in {"int", "uint", "bool", "func"}}
FirstFields ==
  {Field(TagOf(p[1], p[2]) \o suf, "string") :
     p \in {q \in (1..MaxPos) \X (1..MaxPos) : q[1] <= q[2]},
     suf \in {<<>>, <<44>> \o right \o <<44, 35>>}}
  \cup {Field(t, "string") : t \in InvalidTags} \cup {Field(<<53>>, "func")}
SecondFields ==
  {Field(t, "string") : t \in ValidTags \cup InvalidTags} \cup {Field(<<>>, "func")}
PairTypes == {<<f1, f2>> : f1 \in FirstFields, f2 \in SecondFields}
StructTypes == StringTypes \cup ScalarTypes \cup PairTypes

\* The values a field of the given kind takes.
ValuesOf(kind, texts) ==
  CASE kind = "string" -> {StringVal(t) : t \in texts}
    [] kind = "int" -> {IntVal(n) : n \in {0, 7, 12, -3}}
    [] kind = "uint" -> {UintVal(n) : n \in {0, 7, 12}}
    [] kind = "bool" -> {BoolVal(t) : t \in BOOLEAN}
    [] kind = "*string" -> {NilPtr(kind)} \cup {PtrVal(kind, FALSE, StringVal(t)) : t \in texts}
    [] kind = "*int" -> {NilPtr(kind), PtrVal(kind, FALSE, IntVal(7))}
    [] kind = "*text" -> {NilPtr(kind)} \cup {PtrVal(kind, FALSE, TextVal(t)) : t \in texts}
    [] kind = "struct" -> {StructVal(<<StringVal(x), StringVal(y)>>) : x \in texts, y \in texts}
    [] OTHER -> {FuncVal}
\* The records of a struct type.
Records(t) ==
  IF Len(t) = 1 THEN {<<v>> : v \in ValuesOf(t[1].kind, Texts)}
  ELSE {<<v1, v2>> : v1 \in ValuesOf(t[1].kind, ShortTexts),
                     v2 \in ValuesOf(t[2].kind, ShortTexts)}

\* A value other than the zero value, to tell a field that was left alone
\* from one that was reset; for a func field, n = 9 stands for a non-nil func.
DirtyVal(kind) ==
  LET of(k) == Val(k, IF k \in {"string", "text"} THEN <<120>> ELSE <<>>,
                   IF k \in {"int", "int8", "uint", "uint8", "func"} THEN 9 ELSE 0,
                   k = "bool")
  IN IF kind \in PtrKinds THEN PtrVal(kind, FALSE, of(ElemKind(kind)))
     ELSE IF kind = "struct" THEN StructVal([i \in 1..Len(InnerType) |-> of(InnerType[i].kind)])
     ELSE of(kind)
\* The targets a decode starts from: a fresh record and a used one.
Targets(t) == {[i \in 1..Len(t) |-> ZeroVal(t[i].kind)],
               [i \in 1..Len(t) |-> DirtyVal(t[i].kind)]}

\* ------------------------------------------------------------------ state

VARIABLES
  pc,                   \* where the run stands
  useCodepointIndices,  \* Encoder/Decoder.useCodepointIndices
  typ,                  \* the struct type: a sequence of fields [tag, kind]
  layout,               \* fieldSpecCache's entry for typ
  rec,                  \* the record handed to Marshal
  fi,                   \* structEncoder's loop index (1-based)
  b,                    \* structEncoder's lineBuilder
  prev,                 \* the builder before the last Write
  wrote,                \* the field the last Write was for (0: none yet)
  out,                  \* the encoded line
  before,               \* the target record before the decode
  target,               \* the target record after the decode
  dstatus,              \* how the decode ended
  raws,                 \* what the decode handed to each field's setter
  uerr,                 \* the UnmarshalTypeError the decode returned, if any
  input,                \* the bytes behind a Decoder's reader
  unread,               \* the bytes the reader has yet to hand out
  chunk,                \* the most bytes one Read hands out
  buf,                  \* the scanner's buffer: bytes read and not yet consumed
  atEOF,                \* the scanner has seen the reader's io.EOF
  lineTerminator,       \* Decoder.lineTerminator
  done,                 \* Decoder.done
  calls,                \* the Decode calls made so far
  ret,                  \* what the last Decode call returned
  op,                   \* the last Decode call's target: "one" record or "all"
  slice,                \* the slice of records a Decode for all lines fills
  sliceBefore,          \* that slice before the last such call
  restBefore,           \* the input not yet consumed before the last such call
  w,                    \* the bytes an Encoder's bufio.Writer holds
  sink,                 \* the bytes the io.Writer under it has been given
  wBefore,              \* w before the last Encode call
  sinkBefore,           \* sink before the last Encode call
  recs,                 \* the slice the last Encode call was handed
  cacheBy,              \* the goroutine whose value fieldSpecCache holds (0: none)
  ppc,                  \* where each goroutine stands in cachedStructSpec
  built,                \* what each goroutine's buildStructSpec returned
  got,                  \* what cachedStructSpec returned to each goroutine
  stack,                \* the calls of a layout's build that have not returned
  cached                \* the record types fieldSpecCache has an entry for

\* The variables of a Decoder and its input stream.
streamVars == <<input, unread, chunk, buf, atEOF, lineTerminator, done, calls, ret, op,
                slice, sliceBefore, restBefore, w, sink, wBefore, sinkBefore, recs,
                cacheBy, ppc, built, got, stack, cached>>
\* The variables of the goroutines that call cachedStructSpec at once.
cacheVars == <<cacheBy, ppc, built, got, stack, cached>>
\* The variables of an Encoder and its output stream.
encVars == <<w, sink, wBefore, sinkBefore, recs>>
\* The variables of one Marshal and of the decode of its line.
codecVars == <<rec, fi, b, prev, wrote, out, dstatus, raws, uerr>>

vars == <<pc, useCodepointIndices, typ, layout, before, target, codecVars, streamVars>>

\* The cache before the type's first use.
NoLayout == [ll |-> 0, fieldSpecs |-> <<>>]

NoBuilder == Builder(<<>>, FALSE, <<>>)

\* No Marshal has run, and no decode.
NoCodec ==
  /\ rec = <<>>
  /\ fi = 0
  /\ b = NoBuilder
  /\ prev = NoBuilder
  /\ wrote = 0
  /\ dstatus = "none"
  /\ raws = <<>>
  /\ uerr = NoTypeError
\* No goroutine is in cachedStructSpec.
NoCache ==
  /\ cacheBy = 0
  /\ ppc = <<>>
  /\ built = <<>>
  /\ got = <<>>
  /\ stack = <<>>
  /\ cached = {}
\* No Encoder has been made.
NoEnc ==
  /\ w = <<>>
  /\ sink = <<>>
  /\ wBefore = <<>>
  /\ sinkBefore = <<>>
  /\ recs = <<>>
\* No Decoder has been made.
NoStream ==
  /\ input = <<>>
  /\ unread = <<>>
  /\ chunk = 0
  /\ buf = <<>>
  /\ atEOF = FALSE
  /\ lineTerminator = <<>>
  /\ done = FALSE
  /\ calls = 0
  /\ ret = "none"
  /\ op = "none"
  /\ slice = <<>>
  /\ sliceBefore = <<>>
  /\ restBefore = <<>>
  /\ NoEnc
  /\ NoCache

Init ==
  /\ pc = "idle"
  /\ useCodepointIndices \in BOOLEAN
  /\ typ \in StructTypes
  /\ layout = NoLayout
  /\ out = <<>>
  /\ before = <<>>
  /\ target = <<>>
  /\ NoCodec
  /\ NoStream

\* Where structEncoder stands with loop index i and builder nb.
encodePc(i, nb) ==
  IF nb.panic THEN "panicked" ELSE IF i > Len(typ) THEN "encoded" ELSE "encoding"

\* Marshal(v): structEncoder up to its loop (encode.go 217-225).
MarshalBegin ==
  /\ pc = "idle"
  /\ \E r \in Records(typ) :
       LET ss == buildStructSpec(typ)
           nb == structBuilder(ss, useCodepointIndices)
       IN
       /\ layout' = ss
       /\ rec' = r
       /\ b' = nb
       /\ prev' = nb
       /\ fi' = 1
       /\ pc' = IF nb.panic THEN "panicked" ELSE "encoding"
  /\ UNCHANGED <<useCodepointIndices, typ, wrote, out, before, target, dstatus, raws, uerr>>
  /\ UNCHANGED streamVars

\* One pass of structEncoder's loop (encode.go 227-237), and its return when
\* the pass was the last.
EncodeField ==
  /\ pc = "encoding"
  /\ fi <= Len(typ)
  /\ IF ~layout.fieldSpecs[fi].ok
     THEN /\ pc' = encodePc(fi + 1, b)
          /\ out' = IF fi + 1 > Len(typ) THEN b.data ELSE out
          /\ UNCHANGED <<b, prev, wrote>>
     ELSE \E wr \in {Write(b, rec[fi], layout.fieldSpecs[fi], useCodepointIndices)} :
          /\ pc' = IF wr.err # "none" THEN "encodeError" ELSE encodePc(fi + 1, wr.b)
          /\ b' = wr.b
          /\ prev' = b
          /\ wrote' = fi
          /\ out' = IF wr.err = "none" /\ ~wr.b.panic /\ fi + 1 > Len(typ)
                    THEN wr.b.data ELSE out
  /\ fi' = fi + 1
  /\ UNCHANGED <<useCodepointIndices, typ, layout, rec, before, target, dstatus, raws, uerr>>
  /\ UNCHANGED streamVars

\* Unmarshal(out, &target): the encoded line decoded into a target record.
Unmarshal ==
  /\ pc = "encoded"
  /\ \E t0 \in Targets(typ) :
       LET r == unmarshal(layout, t0, out, useCodepointIndices) IN
       /\ before' = t0
       /\ target' = r.v
       /\ dstatus' = r.status
       /\ raws' = r.raws
       /\ uerr' = r.uerr
  /\ pc' = "decoded"
  /\ UNCHANGED <<useCodepointIndices, typ, layout, rec, fi, b, prev, wrote, out>>
  /\ UNCHANGED streamVars

Next == MarshalBegin \/ EncodeField \/ Unmarshal

Spec == Init /\ [][Next]_vars

\* -------------------------------------------------- encoding nil pointers

\* Struct types of one pointer field in columns 1-2, and of a string field in
\* columns 1-2 followed by a pointer field in columns 2-3.
NilTypes ==
  {<<Field(TagOf(1, 2) \o suf, k)>> : suf \in FormatSuffixes, k \in PtrKinds}
  \cup {<<Field(TagOf(1, 2), "string"), Field(TagOf(2, 3) \o suf, k)>> :
          suf \in {<<>>, <<44>> \o right \o <<44, 35>>}, k \in PtrKinds}

InitNil ==
  /\ pc = "idle"
  /\ useCodepointIndices \in BOOLEAN
  /\ typ \in NilTypes
  /\ layout = NoLayout
  /\ out = <<>>
  /\ before = <<>>
  /\ target = <<>>
  /\ NoCodec
  /\ NoStream

SpecNil == InitNil /\ [][Next]_vars

\* ---------------------------------------------------------- nested records
\* Struct types of one record field in columns 1 to MaxPos, and of a string
\* field in column 1 followed by a record field in the MaxPos columns after
\* it.
NestedTypes ==
  {<<Field(TagOf(1, MaxPos) \o suf, "struct")>> : suf \in FormatSuffixes}
  \cup {<<Field(TagOf(1, 1), "string"), Field(TagOf(2, MaxPos + 1) \o suf, "struct")>> :
          suf \in {<<>>, <<44>> \o left}}

InitNested ==
  /\ pc = "idle"
  /\ useCodepointIndices \in BOOLEAN
  /\ typ \in NestedTypes
  /\ layout = NoLayout
  /\ out = <<>>
  /\ before = <<>>
  /\ target = <<>>
  /\ NoCodec
  /\ NoStream

SpecNested == InitNested /\ [][Next]_vars

\* ------------------------------------------------------------ tag parsing

\* What a tag's position parts are drawn from: "0", "1", "2", "10", "-1",
\* "+2", " 2", "2 ", "x" and the empty string.
PosTokens == {<<48>>, <<49>>, <<50>>, <<49, 48>>, <<45, 49>>, <<43, 50>>, <<32, 50>>,
              <<50, 32>>, <<120>>, <<>>}
\* Its alignment part: the three alignments, "none", " left", "left " and the
\* empty string.
AlignTokens == {left, right, defaultAlignment, <<110, 111, 110, 101>>, <<32>> \o left,
                left \o <<32>>, <<>>}
\* Its pad part: "#", "0", " ", "_", "__", "00", "_#", "  " and the empty
\* string.
PadTokens == {<<35>>, <<48>>, <<32>>, <<95>>, <<95, 95>>, <<48, 48>>, <<95, 35>>,
              <<32, 32>>, <<>>}
\* The tags of one to five parts.
Tags ==
  LET two == {s \o <<44>> \o e : s \in PosTokens, e \in PosTokens}
      three == {t \o <<44>> \o a : t \in two, a \in AlignTokens}
      four == {t \o <<44>> \o c : t \in three, c \in PadTokens}
  IN PosTokens \cup two \cup three \cup four
     \cup {<<50, 44, 49, 48>> \o <<44>> \o defaultAlignment \o <<44, 95, 44, 102, 111, 111>>}
TagTypes == {<<Field(t, "string")>> : t \in Tags}

InitTag ==
  /\ pc = "tag"
  /\ useCodepointIndices = FALSE
  /\ typ \in TagTypes
  /\ layout = NoLayout
  /\ out = <<>>
  /\ before = <<>>
  /\ target = <<>>
  /\ NoCodec
  /\ NoStream

\* cachedStructSpec(t) on a type's first use: buildStructSpec(t), stored.
CachedStructSpec ==
  /\ pc = "tag"
  /\ layout' = buildStructSpec(typ)
  /\ pc' = "cached"
  /\ UNCHANGED <<useCodepointIndices, typ, before, target, codecVars, streamVars>>

NextTag == CachedStructSpec

SpecTag == InitTag /\ [][NextTag]_vars

\* ------------------------------------------------------ concurrent callers

\* The goroutines that call cachedStructSpec(typ) at once.
MaxProcs == 2
Procs == 1..MaxProcs

\* An entry of fieldSpecCache: the struct spec, and the goroutine that built
\* it, which tells one stored value from another that is equal to it.
Entry(spec, by) == [spec |-> spec, by |-> by]
NoEntry == Entry(NoLayout, 0)

\* A Store: the entry is the caller's, whatever the cache holds.
store(spec, by, val, p) == Entry(val, p)
\* sync.Map.LoadOrStore(t, val) by goroutine p on a cache that holds spec
\* built by goroutine by (0: nothing): the entry the cache holds afterwards,
\* which is what the call returns.
loadOrStore(spec, by, val, p) == IF by # 0 THEN Entry(spec, by) ELSE Entry(val, p)

InitCache ==
  /\ pc = "cache"
  /\ useCodepointIndices = FALSE
  /\ typ \in StringTypes
  /\ layout = NoLayout
  /\ out = <<>>
  /\ before = <<>>
  /\ target = <<>>
  /\ NoCodec
  /\ input = <<>>
  /\ unread = <<>>
  /\ chunk = 0
  /\ buf = <<>>
  /\ atEOF = FALSE
  /\ lineTerminator = <<>>
  /\ done = FALSE
  /\ calls = 0
  /\ ret = "none"
  /\ op = "none"
  /\ slice = <<>>
  /\ sliceBefore = <<>>
  /\ restBefore = <<>>
  /\ NoEnc
  /\ cacheBy = 0
  /\ ppc = [p \in Procs |-> "load"]
  /\ built = [p \in Procs |-> NoLayout]
  /\ got = [p \in Procs |-> NoEntry]
  /\ stack = <<>>
  /\ cached = {}

\* What no step of cachedStructSpec changes.
CacheFrame ==
  UNCHANGED <<pc, useCodepointIndices, typ, out, before, target, codecVars, input, unread,
              chunk, buf, atEOF, lineTerminator, done, calls, ret, op, slice, sliceBefore,
              restBefore, encVars, stack, cached>>

\* fieldSpecCache.Load(t): a hit returns the entry.
Load(p) ==
  /\ pc = "cache" /\ ppc[p] = "load"
  /\ IF cacheBy # 0
     THEN /\ got' = [got EXCEPT ![p] = Entry(layout, cacheBy)]
          /\ ppc' = [ppc EXCEPT ![p] = "returned"]
     ELSE /\ ppc' = [ppc EXCEPT ![p] = "build"]
          /\ UNCHANGED got
  /\ UNCHANGED <<layout, cacheBy, built>>
  /\ CacheFrame

\* buildStructSpec(t), the argument of LoadOrStore.
Build(p) ==
  /\ pc = "cache" /\ ppc[p] = "build"
  /\ built' = [built EXCEPT ![p] = buildStructSpec(typ)]
  /\ ppc' = [ppc EXCEPT ![p] = "store"]
  /\ UNCHANGED <<layout, cacheBy, got>>
  /\ CacheFrame

\* fieldSpecCache.LoadOrStore(t, built), and the return.
LoadOrStore(p) ==
  /\ pc = "cache" /\ ppc[p] = "store"
  /\ LET e == loadOrStore(layout, cacheBy, built[p], p) IN
     /\ layout' = e.spec
     /\ cacheBy' = e.by
     /\ got' = [got EXCEPT ![p] = e]
  /\ ppc' = [ppc EXCEPT ![p] = "returned"]
  /\ UNCHANGED built
  /\ CacheFrame

NextCache == \E p \in Procs : Load(p) \/ Build(p) \/ LoadOrStore(p)

SpecCache == InitCache /\ [][NextCache]_vars

\* ------------------------------------------------------- decoding one line

\* The lines of at most MaxPos codepoints over "a", "ø", the space and "#".
Lines == TextsOver({CpA, CpO, CpSpace, <<35>>}, MaxPos)
\* Struct types of one string field with a valid tag.
LineTypes == {<<Field(t, "string")>> : t \in ValidTags}

InitLine ==
  /\ pc = "line"
  /\ useCodepointIndices \in BOOLEAN
  /\ typ \in LineTypes
  /\ layout = NoLayout
  /\ out \in Lines
  /\ before = <<>>
  /\ target = <<>>
  /\ NoCodec
  /\ NoStream

\* Unmarshal(out, &target) for a line that is anything at all.
UnmarshalLine ==
  /\ pc = "line"
  /\ \E t0 \in Targets(typ) :
       LET ss == buildStructSpec(typ)
           r == unmarshal(ss, t0, out, useCodepointIndices)
       IN
       /\ layout' = ss
       /\ before' = t0
       /\ target' = r.v
       /\ dstatus' = r.status
       /\ raws' = r.raws
       /\ uerr' = r.uerr
  /\ pc' = "lineDecoded"
  /\ UNCHANGED <<useCodepointIndices, typ, rec, fi, b, prev, wrote, out>>
  /\ UNCHANGED streamVars

NextLine == UnmarshalLine

SpecLine == InitLine /\ [][NextLine]_vars

\* ---------------------------------------------------- the two index modes

\* A Marshal followed by an Unmarshal of its line, or an Unmarshal of a line
\* that is anything at all, each in one of the two modes.
InitModes == Init \/ InitLine

NextModes == Next \/ NextLine

SpecModes == InitModes /\ [][NextModes]_vars

\* ------------------------------------------------------ decoding numbers

\* The lines of at most MaxPos characters over "1", "2", "5", "-" and the
\* space.
NumberLines == TextsOver({<<49>>, <<50>>, <<53>>, <<45>>, <<32>>}, MaxPos)
\* Struct types of one integer field in columns 1 to MaxPos: int and uint of
\* 64 bits, int8 and uint8.
NumberTypes == {<<Field(TagOf(1, MaxPos), k)>> : k \in {"int", "int8", "uint", "uint8"}}

\* And of one bool field.
BoolTypes == {<<Field(TagOf(1, MaxPos), "bool")>>}

InitNumber ==
  /\ pc = "line"
  /\ useCodepointIndices \in BOOLEAN
  /\ typ \in NumberTypes \cup BoolTypes
  /\ layout = NoLayout
  /\ out \in NumberLines
  /\ before = <<>>
  /\ target = <<>>
  /\ NoCodec
  /\ NoStream

SpecNumber == InitNumber /\ [][NextLine]_vars

\* ------------------------------------------------- decoding into pointers

\* Struct types of one pointer field in columns 1 to MaxPos.
PtrTypes == {<<Field(TagOf(1, MaxPos), k)>> : k \in PtrKinds}

InitPtr ==
  /\ pc = "line"
  /\ useCodepointIndices \in BOOLEAN
  /\ typ \in PtrTypes
  /\ layout = NoLayout
  /\ out \in NumberLines
  /\ before = <<>>
  /\ target = <<>>
  /\ NoCodec
  /\ NoStream

SpecPtr == InitPtr /\ [][NextLine]_vars

\* ------------------------------------------------- decoding malformed text

\* The lines of at most MaxPos units over "a", "ø", a lead byte of a two-byte
\* codepoint on its own (0xC3) and a continuation byte on its own (0xB8).
MalformedLines == TextsOver({CpA, CpO, <<195>>, <<184>>}, MaxPos)

InitMalformed ==
  /\ pc = "line"
  /\ useCodepointIndices \in BOOLEAN
  /\ typ \in {<<Field(TagOf(1, 2), "string")>>, <<Field(TagOf(2, 3), "string")>>}
  /\ layout = NoLayout
  /\ out \in MalformedLines
  /\ before = <<>>
  /\ target = <<>>
  /\ NoCodec
  /\ NoStream

SpecMalformed == InitMalformed /\ [][NextLine]_vars

\* ---------------------------------------------------------------- Decoder

\* A Decode that hands on readLine's error and never says io.EOF.
decodeReturnErr(isDone, err, ok) == err
\* What Decode returns for a struct target once readLine has returned
\* (err, ok): io.EOF when the decoder is done and there was nothing to read.
decodeReturn(isDone, err, ok) ==
  IF isDone /\ err = "nil" /\ ~ok THEN "EOF" ELSE err

\* The error readLine returns for the way the line's decode ended.
lineErr(status) ==
  CASE status = "ok" -> "nil"
    [] status = "panic" -> "panic"
    [] OTHER -> "error"

\* The input streams: at most MaxInput bytes of "a", "1", "\n" and "\r".
Inputs == TextsOver({<<97>>, <<49>>, <<10>>, <<13>>}, MaxInput)
\* The targets of a stream's decodes: one string field, or one int field.
StreamTypes == {<<Field(TagOf(1, 2), "string")>>, <<Field(TagOf(1, 2), "int")>>}
\* The Decode calls a run makes at most: two past the most lines there are.
MaxCalls == MaxInput + 2

InitStream ==
  /\ pc = "stream"
  /\ useCodepointIndices \in BOOLEAN
  /\ typ \in StreamTypes
  /\ layout = NoLayout
  /\ out = <<>>
  /\ target = [i \in 1..Len(typ) |-> DirtyVal(typ[i].kind)]
  /\ before = target
  /\ NoCodec
  /\ input \in Inputs
  /\ unread = input
  /\ chunk \in {1, MaxInput}
  /\ buf = <<>>
  /\ atEOF = FALSE
  /\ lineTerminator \in {<<10>>, <<13, 10>>}
  /\ done = FALSE
  /\ calls = 0
  /\ ret = "none"
  /\ op = "none"
  /\ slice \in {<<>>, <<target>>}
  /\ sliceBefore = slice
  /\ restBefore = <<>>
  /\ NoEnc
  /\ NoCache

\* Decoder.Decode(&target) for a struct target: readLine, then the return.
\* A call that panics has consumed its line; a caller that recovers may call
\* again.
Decode ==
  /\ pc = "stream"
  /\ calls < MaxCalls
  /\ LET s == scannerScan(lineTerminator, buf, unread, atEOF, chunk) IN
     /\ buf' = s.buf
     /\ unread' = s.unread
     /\ atEOF' = s.eof
     /\ IF ~s.ok
        THEN /\ done' = TRUE
             /\ ret' = decodeReturn(TRUE, "nil", FALSE)
             /\ pc' = "stream"
             /\ UNCHANGED <<target, layout, out, dstatus, raws, uerr>>
        ELSE LET ss == buildStructSpec(typ)
                 r == decodePtrLine(ss, target, s.token, useCodepointIndices)
             IN /\ layout' = ss
                /\ out' = s.token
                /\ target' = r.v
                /\ dstatus' = r.status
                /\ raws' = r.raws
                /\ uerr' = r.uerr
                /\ ret' = decodeReturn(done, lineErr(r.status), TRUE)
                /\ pc' = "stream"
                /\ UNCHANGED done
  /\ before' = target
  /\ calls' = calls + 1
  /\ op' = "one"
  /\ UNCHANGED <<useCodepointIndices, typ, rec, fi, b, prev, wrote>>
  /\ UNCHANGED <<input, chunk, lineTerminator, slice, sliceBefore, restBefore>>
  /\ UNCHANGED encVars
  /\ UNCHANGED cacheVars

NextStream == Decode

SpecStream == InitStream /\ [][NextStream]_vars

\* ------------------------------------------------- Decoder, all the lines

RECURSIVE readLines(_, _, _, _, _, _)
\* Decoder.readLines(v) from the scanner state st = [buf, unread, eof, done]:
\* each line is decoded into a new zero record, which is appended to v when
\* readLine said ok: [err, v, st].
readLines(ss, term, n, useCP, st, v) ==
  LET read(r, st1) ==
        IF r.status # "ok" THEN [err |-> lineErr(r.status), v |-> v, st |-> st1]
        ELSE IF st1.done THEN [err |-> "nil", v |-> Append(v, r.v), st |-> st1]
        ELSE readLines(ss, term, n, useCP, st1, Append(v, r.v))
      scanned(s) ==
        IF ~s.ok
        THEN [err |-> "nil", v |-> v,
              st |-> [buf |-> s.buf, unread |-> s.unread, eof |-> s.eof, done |-> TRUE]]
        ELSE read(decodeLine(ss, [i \in 1..Len(ss.fieldSpecs) |-> ZeroVal(ss.fieldSpecs[i].kind)],
                             s.token, useCP),
                  [buf |-> s.buf, unread |-> s.unread, eof |-> s.eof, done |-> st.done])
  IN scanned(scannerScan(term, st.buf, st.unread, st.eof, n))

\* Decoder.Decode(&slice) for a slice of records: readLines.
DecodeAll ==
  /\ pc = "stream"
  /\ \E r \in {readLines(buildStructSpec(typ), lineTerminator, chunk, useCodepointIndices,
                           [buf |-> buf, unread |-> unread, eof |-> atEOF, done |-> done],
                           slice)} :
        /\ layout' = buildStructSpec(typ)
        /\ slice' = r.v
        /\ buf' = r.st.buf
        /\ unread' = r.st.unread
        /\ atEOF' = r.st.eof
        /\ done' = r.st.done
        /\ ret' = r.err
  /\ sliceBefore' = slice
  /\ restBefore' = buf \o unread
  /\ op' = "all"
  /\ UNCHANGED <<pc, useCodepointIndices, typ, before, target, codecVars>>
  /\ UNCHANGED <<input, chunk, lineTerminator, calls>>
  /\ UNCHANGED encVars
  /\ UNCHANGED cacheVars

NextAll == Decode \/ DecodeAll

SpecAll == InitStream /\ [][NextAll]_vars

\* A Decoder over the same streams whose first target is a fresh record, as
\* reflect.New or a declaration makes it, and whose slice is empty.
InitFresh ==
  /\ pc = "stream"
  /\ useCodepointIndices \in BOOLEAN
  /\ typ \in StreamTypes
  /\ layout = NoLayout
  /\ out = <<>>
  /\ target = [i \in 1..Len(typ) |-> ZeroVal(typ[i].kind)]
  /\ before = target
  /\ NoCodec
  /\ input \in Inputs
  /\ unread = input
  /\ chunk \in {1, MaxInput}
  /\ buf = <<>>
  /\ atEOF = FALSE
  /\ lineTerminator \in {<<10>>, <<13, 10>>}
  /\ done = FALSE
  /\ calls = 0
  /\ ret = "none"
  /\ op = "none"
  /\ slice = <<>>
  /\ sliceBefore = slice
  /\ restBefore = <<>>
  /\ NoEnc
  /\ NoCache

SpecFresh == InitFresh /\ [][NextAll]_vars

\* ------------------------------------------------- Decoder, other targets

\* What Decode may be handed besides a pointer to a record or to a slice: nil,
\* a record that is not a pointer, a nil pointer, and pointers to an int and
\* to a func.
TargetKinds == {"nil", "nonptr", "nilptr", "ptrint", "ptrfunc"}
\* A Decode that takes only pointers to records and to slices of records.
invalidTargetUnlessRecord(kind) == kind \notin {"ptrstruct", "ptrslice"}
\* Decode's test of its argument: rv.Kind() != reflect.Ptr || rv.IsNil().
invalidTarget(kind) == kind \in {"nil", "nonptr", "nilptr"}

\* Decoder.readLine past the scanner for a pointer to a value of the given
\* kind that holds cur: ptrSetter, with the kind's setter for inner setter:
\* [status, val].
decodePtrScalar(kind, cur, line, useCP) ==
  LET rv == newRawValue(line, useCP) IN
  IF rv.err THEN [status |-> "codepoint", val |-> cur]
  ELSE IF Len(rv.v.data) <= 0 THEN [status |-> "panic", val |-> cur]
  ELSE LET r == setValue(kind, cur, rv.v) IN
       [status |-> IF r.err THEN "error" ELSE "ok", val |-> r.val]

InitTarget ==
  /\ pc = "stream"
  /\ useCodepointIndices = FALSE
  /\ typ = <<>>
  /\ layout = NoLayout
  /\ out = <<>>
  /\ target = <<DirtyVal("int")>>
  /\ before = target
  /\ NoCodec
  /\ input \in Inputs
  /\ unread = input
  /\ chunk \in {1, MaxInput}
  /\ buf = <<>>
  /\ atEOF = FALSE
  /\ lineTerminator \in {<<10>>, <<13, 10>>}
  /\ done = FALSE
  /\ calls = 0
  /\ ret = "none"
  /\ op = "none"
  /\ slice = <<>>
  /\ sliceBefore = <<>>
  /\ restBefore = <<>>
  /\ NoEnc
  /\ NoCache

\* Decoder.Decode(v) for a v of one of the TargetKinds; target holds the int
\* a pointer to an int points to.
DecodeOther ==
  /\ pc = "stream"
  /\ calls < MaxCalls
  /\ \E kind \in TargetKinds :
       /\ op' = kind
       /\ IF invalidTarget(kind)
          THEN /\ ret' = "InvalidUnmarshalError"
               /\ UNCHANGED <<buf, unread, atEOF, done, target, out>>
          ELSE LET s == scannerScan(lineTerminator, buf, unread, atEOF, chunk) IN
               /\ buf' = s.buf
               /\ unread' = s.unread
               /\ atEOF' = s.eof
               /\ IF ~s.ok
                  THEN /\ done' = TRUE
                       /\ ret' = decodeReturn(TRUE, "nil", FALSE)
                       /\ UNCHANGED <<target, out>>
                  ELSE LET r == decodePtrScalar(IF kind = "ptrint" THEN "int" ELSE "func",
                                                target[1], s.token, useCodepointIndices)
                       IN /\ out' = s.token
                          /\ target' = <<r.val>>
                          /\ ret' = decodeReturn(done, lineErr(r.status), TRUE)
                          /\ UNCHANGED done
  /\ before' = target
  /\ restBefore' = buf \o unread
  /\ calls' = calls + 1
  /\ UNCHANGED <<pc, useCodepointIndices, typ, layout, rec, fi, b, prev, wrote, dstatus, raws, uerr>>
  /\ UNCHANGED <<input, chunk, lineTerminator, slice, sliceBefore>>
  /\ UNCHANGED encVars
  /\ UNCHANGED cacheVars

NextTarget == DecodeOther

SpecTarget == InitTarget /\ [][NextTarget]_vars

\* ---------------------------------------------------------------- Encoder

\* The elements of the []interface{} an Encode call is handed: records of the
\* struct type, and a func.
Elem(kind, v) == [kind |-> kind, v |-> v]
FuncElem == Elem("func", <<>>)

\* Encoder.writeLine(v) once the value encoder of the element's type returned
\* r: the line goes into the bufio.Writer buf (far below its 4096 bytes) when
\* there is no error: [err, w].
lineWritten(r, buf0) ==
  IF r.status # "ok" THEN [err |-> r.status, w |-> buf0]
  ELSE [err |-> "nil", w |-> buf0 \o r.line]

\* Encoder.writeLine(v) for an element: [err, w].
writeLine(ss, useCP, elem, buf0) ==
  IF elem.kind # "struct" THEN [err |-> "error", w |-> buf0]
  ELSE lineWritten(structEncode(ss, elem.v, useCP), buf0)

RECURSIVE writeLines(_, _, _, _, _, _)
\* The body of the loop of Encoder.writeLines once writeLine returned r for
\* element i: return the error, or write the terminator unless the element is
\* the last and go on.
linesAfter(ss, useCP, term, v, i, r) ==
  IF r.err # "nil" THEN r
  ELSE writeLines(ss, useCP, term, v, i + 1,
                  IF i # Len(v) - 1 THEN r.w \o term ELSE r.w)

\* Encoder.writeLines(v) from element i (0-based) on: [err, w].
writeLines(ss, useCP, term, v, i, buf0) ==
  IF ~(i < Len(v)) THEN [err |-> "nil", w |-> buf0]
  ELSE linesAfter(ss, useCP, term, v, i, writeLine(ss, useCP, v[i + 1], buf0))

\* The most elements an Encode call is handed, and the most Encode calls.
MaxRecs == 2
MaxEncodes == MaxRecs
\* One string field in columns 1-2, left aligned over spaces and right
\* aligned over '#'.
EncTypes == {<<Field(TagOf(1, 2), "string")>>,
             <<Field(TagOf(1, 2) \o <<44>> \o right \o <<44, 35>>, "string")>>}
EncElems == {Elem("struct", <<StringVal(t)>>) : t \in {CpA, CpO}} \cup {FuncElem}
RECURSIVE SeqsOver(_, _)
SeqsOver(S, n) ==
  IF n = 0 THEN {<<>>}
  ELSE LET shorter == SeqsOver(S, n - 1) IN shorter \cup {Append(q, x) : q \in shorter, x \in S}

InitEnc ==
  /\ pc = "encoder"
  /\ useCodepointIndices \in BOOLEAN
  /\ typ \in EncTypes
  /\ layout = NoLayout
  /\ out = <<>>
  /\ before = <<>>
  /\ target = <<>>
  /\ NoCodec
  /\ input = <<>>
  /\ unread = <<>>
  /\ chunk = 0
  /\ buf = <<>>
  /\ atEOF = FALSE
  /\ lineTerminator \in {<<10>>, <<13, 10>>, <<>>}
  /\ done = FALSE
  /\ calls = 0
  /\ ret = "none"
  /\ op = "none"
  /\ slice = <<>>
  /\ sliceBefore = <<>>
  /\ restBefore = <<>>
  /\ NoEnc
  /\ NoCache

\* Encoder.Encode(v) for a slice v: writeLines, and Flush when it returned no
\* error. A call that panics leaves the bufio.Writer as it was at the panic.
EncodeAll ==
  /\ pc = "encoder"
  /\ calls < MaxEncodes
  /\ \E v \in SeqsOver(EncElems, MaxRecs) :
       \E r \in {writeLines(buildStructSpec(typ), useCodepointIndices, lineTerminator, v, 0, w)} :
          /\ layout' = buildStructSpec(typ)
          /\ recs' = v
          /\ ret' = r.err
          /\ w' = IF r.err = "nil" THEN <<>> ELSE r.w
          /\ sink' = IF r.err = "nil" THEN sink \o r.w ELSE sink
  /\ wBefore' = w
  /\ sinkBefore' = sink
  /\ calls' = calls + 1
  /\ UNCHANGED <<pc, useCodepointIndices, typ, before, target, codecVars>>
  /\ UNCHANGED <<input, unread, chunk, buf, atEOF, lineTerminator, done, op, slice,
                 sliceBefore, restBefore>>
  /\ UNCHANGED cacheVars

NextEnc == EncodeAll

SpecEnc == InitEnc /\ [][NextEnc]_vars

\* Encoder.Encode(i) for one record, or a func, that is not in a slice:
\* writeLine, and Flush when it returned no error. recs collects the records
\* of the calls that returned nil.
EncodeOne ==
  /\ pc = "encoder"
  /\ calls < MaxEncodes
  /\ \E elem \in EncElems :
       \E r \in {writeLine(buildStructSpec(typ), useCodepointIndices, elem, w)} :
          /\ layout' = buildStructSpec(typ)
          /\ recs' = IF r.err = "nil" THEN Append(recs, elem) ELSE recs
          /\ ret' = r.err
          /\ w' = IF r.err = "nil" THEN <<>> ELSE r.w
          /\ sink' = IF r.err = "nil" THEN sink \o r.w ELSE sink
  /\ wBefore' = w
  /\ sinkBefore' = sink
  /\ calls' = calls + 1
  /\ UNCHANGED <<pc, useCodepointIndices, typ, before, target, codecVars>>
  /\ UNCHANGED <<input, unread, chunk, buf, atEOF, lineTerminator, done, op, slice,
                 sliceBefore, restBefore>>
  /\ UNCHANGED cacheVars

\* A Decoder over what the stream was given, with the Encoder's terminator
\* (Decoder.SetLineTerminator keeps "\n" when handed an empty one), and one
\* Decode for all lines into an empty slice.
DecodeOutput ==
  /\ pc = "encoder"
  /\ calls > 0
  /\ \E r \in {readLines(buildStructSpec(typ),
                           IF Len(lineTerminator) > 0 THEN lineTerminator ELSE <<10>>,
                           Len(sink) + 1, useCodepointIndices,
                           [buf |-> <<>>, unread |-> sink, eof |-> FALSE, done |-> FALSE],
                           <<>>)} :
        /\ slice' = r.v
        /\ op' = "all"
        /\ dstatus' = IF r.err = "nil" THEN "ok" ELSE r.err
  /\ input' = sink
  /\ pc' = "decodedOutput"
  /\ UNCHANGED <<useCodepointIndices, typ, layout, before, target, rec, fi, b, prev, wrote,
                 out, raws, uerr>>
  /\ UNCHANGED <<unread, chunk, buf, atEOF, lineTerminator, done, calls, ret, sliceBefore,
                 restBefore>>
  /\ UNCHANGED encVars
  /\ UNCHANGED cacheVars

NextEncOne == EncodeOne \/ DecodeOutput

SpecEncOne == InitEnc /\ [][NextEncOne]_vars

\* ------------------------------------------------- decode, encode and decode

\* The scalar kinds a one-field record type is made of: a string in columns
\* 1 to MaxPos; the integers of 64, 16 and 8 bits, the floats and the bool
\* in columns 1 to MaxWidth.
FuzzKinds == {"string", "int", "int16", "int8", "uint", "uint8", "float32", "float64", "bool"}
FuzzType(k) == <<Field(TagOf(1, IF k = "string" THEN MaxPos ELSE MaxWidth), k)>>
\* The inputs by the field's kind: texts with malformed bytes and line feeds,
\* longer than the field too; digits, signs, points and spaces; and what
\* ParseBool accepts, alone and among spaces, and what it does not.
FuzzInputs(k) ==
  CASE k = "string" -> TextsOver({CpA, CpO, <<195>>, CpSpace, <<10>>}, MaxPos + 1)
    [] k \in {"float32", "float64"} -> TextsOver({<<49>>, <<46>>, <<45>>, <<32>>}, MaxWidth)
    [] k = "bool" ->
         {pre \o x \o post : pre \in {<<>>, <<32>>}, post \in {<<>>, <<32>>, <<10>>},
                              x \in TrueTexts \cup FalseTexts \cup {<<>>, <<120>>}}
    [] OTHER -> TextsOver({<<49>>, <<53>>, <<45>>, <<32>>}, MaxWidth)

InitFuzz ==
  /\ pc = "fuzz"
  /\ useCodepointIndices \in BOOLEAN
  /\ \E k \in FuzzKinds : typ = FuzzType(k) /\ out \in FuzzInputs(k)
  /\ layout = NoLayout
  /\ before = <<>>
  /\ target = <<>>
  /\ NoCodec
  /\ NoStream

\* unmarshal(b, i) for a fresh i: a Decoder over the input and one Decode.
FuzzUnmarshal ==
  /\ pc = "fuzz"
  /\ \E r \in {unmarshal(buildStructSpec(typ), [i \in 1..Len(typ) |-> ZeroVal(typ[i].kind)],
                          out, useCodepointIndices)} :
       /\ layout' = buildStructSpec(typ)
       /\ before' = [i \in 1..Len(typ) |-> ZeroVal(typ[i].kind)]
       /\ target' = r.v
       /\ dstatus' = r.status
       /\ raws' = r.raws
       /\ uerr' = r.uerr
  /\ pc' = "fuzzDecoded"
  /\ UNCHANGED <<useCodepointIndices, typ, rec, fi, b, prev, wrote, out>>
  /\ UNCHANGED streamVars

\* marshal(i) once the decode returned no error: an Encoder over a buffer and
\* one Encode of the record, whose line is flushed into the buffer.
FuzzMarshal ==
  /\ pc = "fuzzDecoded"
  /\ dstatus = "ok"
  /\ \E r \in {writeLine(layout, useCodepointIndices, Elem("struct", target), <<>>)} :
       /\ ret' = r.err
       /\ sink' = IF r.err = "nil" THEN r.w ELSE <<>>
  /\ rec' = target
  /\ pc' = "fuzzEncoded"
  /\ UNCHANGED <<useCodepointIndices, typ, layout, before, target, fi, b, prev, wrote, out,
                 dstatus, raws, uerr>>
  /\ UNCHANGED <<input, unread, chunk, buf, atEOF, lineTerminator, done, calls, op, slice,
                 sliceBefore, restBefore, w, wBefore, sinkBefore, recs>>
  /\ UNCHANGED cacheVars

\* unmarshal(encoded, i) once the encode returned no error, into the same i.
FuzzUnmarshalEncoded ==
  /\ pc = "fuzzEncoded"
  /\ ret = "nil"
  /\ \E r \in {unmarshal(layout, target, sink, useCodepointIndices)} :
       /\ before' = target
       /\ target' = r.v
       /\ dstatus' = r.status
       /\ raws' = r.raws
       /\ uerr' = r.uerr
  /\ pc' = "fuzzDone"
  /\ UNCHANGED <<useCodepointIndices, typ, layout, rec, fi, b, prev, wrote, out>>
  /\ UNCHANGED streamVars

NextFuzz == FuzzUnmarshal \/ FuzzMarshal \/ FuzzUnmarshalEncoded

SpecFuzz == InitFuzz /\ [][NextFuzz]_vars

\* ------------------------------------------------- a line builder on its own

\* The most writes into one builder.
MaxWrites == 3
\* The values written: texts over "a" and "ø" as newRawValue indexes them,
\* the empty text among them; and the ASCII texts over "a" and "#".
BuilderTexts == TextsOver({CpA, CpO}, MaxPos)
AsciiTexts == TextsOver({CpA, <<35>>}, MaxPos)

\* newLineBuilder(n, n, ' ') for a line of n >= 1 columns; layout.ll holds n.
InitBuilder ==
  /\ pc = "builder"
  /\ useCodepointIndices = TRUE
  /\ typ = <<>>
  /\ \E n \in 1..MaxPos :
       /\ layout = [ll |-> n, fieldSpecs |-> <<>>]
       /\ b = newLineBuilder(n, n, 32)
  /\ out = <<>>
  /\ before = <<>>
  /\ target = <<>>
  /\ rec = <<>>
  /\ fi = 0
  /\ prev = NoBuilder
  /\ wrote = 0
  /\ dstatus = "none"
  /\ raws = <<>>
  /\ uerr = NoTypeError
  /\ NoStream

\* What a write leaves: the builder, the value written in rec and the column
\* it was written at in wrote (start + 1); calls counts the writes.
BuilderWrote(nb, start, text) ==
  /\ b' = nb
  /\ prev' = b
  /\ rec' = <<StringVal(text)>>
  /\ wrote' = start + 1
  /\ calls' = calls + 1
  /\ pc' = IF nb.panic THEN "panicked" ELSE "builder"
  /\ UNCHANGED <<useCodepointIndices, typ, layout, fi, out, before, target, dstatus, raws, uerr>>
  /\ UNCHANGED <<input, unread, chunk, buf, atEOF, lineTerminator, done, ret, op, slice,
                 sliceBefore, restBefore>>
  /\ UNCHANGED encVars
  /\ UNCHANGED cacheVars

\* b.WriteValue(start, value) for a value that lies within the line.
BuilderWriteValue ==
  /\ pc = "builder"
  /\ calls < MaxWrites
  /\ \E text \in BuilderTexts, start \in 0..layout.ll :
       \E value \in {newRawValue(text, TRUE).v} :
         /\ start + rawLen(value) <= layout.ll
         /\ BuilderWrote(WriteValue(b, start, value), start, text)

\* b.WriteASCII(start, data) for a text that lies within the line.
BuilderWriteASCII ==
  /\ pc = "builder"
  /\ calls < MaxWrites
  /\ \E data \in AsciiTexts, start \in 0..layout.ll :
       /\ start + Len(data) <= layout.ll
       /\ BuilderWrote(WriteASCII(b, start, data), start, data)

NextBuilder == BuilderWriteValue \/ BuilderWriteASCII

SpecBuilder == InitBuilder /\ [][NextBuilder]_vars

\* ------------------------------------------------------- building a layout

\* The record types in play: "T", the type typ; "P", a record type whose one
\* field, tagged "1,1", is a pointer to T; and "Q", a record type of one
\* string field. A field of T is a string, a pointer to T ("*T"), a pointer
\* to P or to Q ("*P", "*Q"), or a P or a Q.
PeerType == <<Field(TagOf(1, 1), "*T")>>
LeafType == <<Field(TagOf(1, 1), "string")>>
FieldsOf(name) == CASE name = "T" -> typ [] name = "P" -> PeerType [] OTHER -> LeafType
\* The record type newValueSetter reaches for a field of the given kind, by
\* ptrSetter's newValueSetter(t.Elem()) and then structSetter, or by
\* structSetter at once; "none" for a string.
RecordOf(kind) ==
  CASE kind = "*T" -> "T" [] kind \in {"*P", "P"} -> "P" [] kind \in {"*Q", "Q"} -> "Q"
    [] OTHER -> "none"
LayoutFields ==
  {Field(t, k) : t \in {TagOf(1, 1), <<>>}, k \in {"string", "*T", "*P", "P", "*Q", "Q"}}
LayoutTypes == {<<f>> : f \in LayoutFields} \cup {<<f, g>> : f \in LayoutFields, g \in LayoutFields}
\* The most calls the goroutine's stack holds: past it the runtime ends the
\* program with "fatal error: stack overflow".
MaxDepth == 8

\* A call of cachedStructSpec(t), at its Load or waiting for buildStructSpec,
\* and a call of buildStructSpec(t) at field i (1-based).
CachedCall(t, at) == [fn |-> "cachedStructSpec", t |-> t, at |-> at, i |-> 0]
BuildCall(t, i) == [fn |-> "buildStructSpec", t |-> t, at |-> "loop", i |-> i]
Top == stack[Len(stack)]
Pop(st) == SubSeq(st, 1, Len(st) - 1)
\* The stack once its top call returned to the buildStructSpec under it, which
\* goes on to its next field.
Returned(st) ==
  LET rest == Pop(st) IN
  IF rest = <<>> THEN rest
  ELSE [rest EXCEPT ![Len(rest)] = BuildCall(rest[Len(rest)].t, rest[Len(rest)].i + 1)]

\* The first use of the type T: cachedStructSpec(T) is about to run.
InitLayout ==
  /\ pc = "layout"
  /\ useCodepointIndices = FALSE
  /\ typ \in LayoutTypes
  /\ layout = NoLayout
  /\ out = <<>>
  /\ before = <<>>
  /\ target = <<>>
  /\ NoCodec
  /\ input = <<>>
  /\ unread = <<>>
  /\ chunk = 0
  /\ buf = <<>>
  /\ atEOF = FALSE
  /\ lineTerminator = <<>>
  /\ done = FALSE
  /\ calls = 0
  /\ ret = "none"
  /\ op = "none"
  /\ slice = <<>>
  /\ sliceBefore = <<>>
  /\ restBefore = <<>>
  /\ NoEnc
  /\ cacheBy = 0
  /\ ppc = <<>>
  /\ built = <<>>
  /\ got = <<>>
  /\ stack = <<CachedCall("T", "load")>>
  /\ cached = {}

\* What no step of a layout's build changes.
LayoutFrame ==
  UNCHANGED <<useCodepointIndices, typ, out, before, target, codecVars, input, unread,
              chunk, buf, atEOF, lineTerminator, done, calls, ret, op, slice, sliceBefore,
              restBefore, encVars, cacheBy, ppc, built, got>>

\* cachedStructSpec(t) up to its call of buildStructSpec: a hit returns the
\* entry to the caller, a miss calls buildStructSpec(t).
CachedLoad ==
  /\ pc = "layout"
  /\ Top.fn = "cachedStructSpec" /\ Top.at = "load"
  /\ IF Top.t \in cached
     THEN /\ stack' = Returned(stack)
          /\ pc' = IF Pop(stack) = <<>> THEN "built" ELSE "layout"
     ELSE IF Len(stack) >= MaxDepth
     THEN /\ pc' = "overflow"
          /\ UNCHANGED stack
     ELSE /\ stack' = Append([stack EXCEPT ![Len(stack)] = CachedCall(Top.t, "build")],
                             BuildCall(Top.t, 1))
          /\ UNCHANGED pc
  /\ UNCHANGED <<layout, cached>>
  /\ LayoutFrame

\* One pass of buildStructSpec's loop: a field with no valid tag is skipped;
\* for the others newValueSetter(f.Type) is resolved, which for a pointer to a
\* record or a record calls cachedStructSpec of that record type.
BuildField ==
  /\ pc = "layout"
  /\ Top.fn = "buildStructSpec" /\ Top.i <= Len(FieldsOf(Top.t))
  /\ LET f == FieldsOf(Top.t)[Top.i] IN
     IF ~parseTag(f.tag).ok \/ RecordOf(f.kind) = "none"
     THEN /\ stack' = [stack EXCEPT ![Len(stack)] = BuildCall(Top.t, Top.i + 1)]
          /\ UNCHANGED pc
     ELSE IF Len(stack) >= MaxDepth
     THEN /\ pc' = "overflow"
          /\ UNCHANGED stack
     ELSE /\ stack' = Append(stack, CachedCall(RecordOf(f.kind), "load"))
          /\ UNCHANGED pc
  /\ UNCHANGED <<layout, cached>>
  /\ LayoutFrame

\* buildStructSpec(t) returns past its last field, and cachedStructSpec(t)
\* stores what it built and returns it.
BuildReturn ==
  /\ pc = "layout"
  /\ Top.fn = "buildStructSpec" /\ Top.i > Len(FieldsOf(Top.t))
  /\ cached' = cached \cup {Top.t}
  /\ layout' = IF Top.t = "T" THEN buildStructSpec(typ) ELSE layout
  /\ stack' = Returned(Pop(stack))
  /\ pc' = IF Pop(Pop(stack)) = <<>> THEN "built" ELSE "layout"
  /\ LayoutFrame

NextLayout == CachedLoad \/ BuildField \/ BuildReturn

SpecLayout == InitLayout /\ [][NextLayout]_vars
\* The goroutine that builds the layout keeps running.
SpecLayoutFair == SpecLayout /\ WF_vars(NextLayout)

\* ----------------------------------------------------- columns of a line

RECURSIVE Runes(_)
\* The codepoints of a UTF-8 string, each as its bytes.
Runes(data) ==
  IF data = <<>> THEN <<>>
  ELSE LET n == DecodeRuneSize(data)
       IN <<SubSeq(data, 1, n)>> \o Runes(SubSeq(data, n + 1, Len(data)))

\* The columns of a line: its bytes in byte mode, its codepoints in codepoint
\* mode.
Columns(data, codepoints) ==
  IF codepoints THEN Runes(data) ELSE [k \in 1..Len(data) |-> <<data[k]>>]

\* n columns of the pad character c.
PadCols(n, c) == [k \in 1..n |-> <<c>>]

\* The text field i of the record encodes to, in columns.
TextCols(i) == Columns(encodeValue(rec[i], useCodepointIndices).v.data, useCodepointIndices)
Encodable(i) == encodeValue(rec[i], useCodepointIndices).err = "none"
\* The columns of a builder that lie in a field's interval.
IntervalOf(builder, spec) ==
  SubSeq(Columns(builder.data, useCodepointIndices), spec.startPos, spec.endPos)

\* The spec and the text of the field the last Write was for.
LastSpec == layout.fieldSpecs[wrote]
LastText == TextCols(wrote)
LastWidth == specLen(LastSpec)
\* The last step wrote a field whose text has fewer columns than its width.
WroteShort == wrote > 0 /\ Encodable(wrote) /\ Len(LastText) < LastWidth
\* The last step wrote a field whose text has more columns than its width.
WroteLong == wrote > 0 /\ Encodable(wrote) /\ Len(LastText) > LastWidth

\* What a short text fills its interval with.
ShortImage ==
  LET pad == PadCols(LastWidth - Len(LastText), LastSpec.format.padChar) IN
  IF LastSpec.format.alignment = right THEN pad \o LastText
  ELSE IF LastSpec.format.alignment = left \/ LastSpec.format.padChar # 32
  THEN LastText \o pad
  ELSE LastText \o SubSeq(Columns(prev.data, useCodepointIndices),
                          LastSpec.startPos + Len(LastText), LastSpec.endPos)

\* C3: a text shorter than its field is written with its padding: pad
\* characters then the text under right alignment, the text then pad
\* characters under left alignment or a pad other than the space, and the text
\* alone, the rest of the interval left as it was, under default alignment
\* with the space pad; in both modes, whatever the line held before.
C3_ShortTextPadded ==
  WroteShort => (~b.panic /\ IntervalOf(b, LastSpec) = ShortImage)

\* The one case in which a Write panics: in codepoint mode, on a line that
\* already indexes its codepoints, an empty text under right alignment in a
\* field that ends at the line's last column.
EmptyRightAtEnd ==
  /\ wrote > 0 /\ Encodable(wrote)
  /\ prev.hasIdx
  /\ LastSpec.format.alignment = right
  /\ Len(LastText) = 0
  /\ LastSpec.endPos = layout.ll

\* A Write panics in that case and in no other, and else pads as C3 says.
ShortTextPaddedUnlessEmptyRightAtEnd ==
  /\ (wrote > 0 /\ Encodable(wrote)) => (b.panic <=> EmptyRightAtEnd)
  /\ (WroteShort /\ ~EmptyRightAtEnd) => IntervalOf(b, LastSpec) = ShortImage

\* C4: a text longer than its field is cut to the field's width: no error,
\* and the interval holds the text's first width columns.
C4_LongTextTruncated ==
  WroteLong => /\ pc # "encodeError"
               /\ ~b.panic
               /\ IntervalOf(b, LastSpec) = SubSeq(LastText, 1, LastWidth)

\* C4's case: a multibyte text cut to its field in codepoint mode.
C4_Witness ==
  /\ WroteLong /\ pc = "encoded"
  /\ useCodepointIndices
  /\ \E k \in 1..Len(LastText) : Len(LastText[k]) > 1

\* ------------------------------------------------------ overlapping fields

\* What field i's text and padding look like on their own: the text cut to
\* the width, or the text with its padding on the side its alignment says.
FieldImage(i) ==
  LET t == TextCols(i)
      spec == layout.fieldSpecs[i]
      pad == PadCols(specLen(spec) - Len(t), spec.format.padChar)
  IN IF Len(t) >= specLen(spec) THEN SubSeq(t, 1, specLen(spec))
     ELSE IF spec.format.alignment = right THEN pad \o t
     ELSE t \o pad

\* The columns of field i that its Write writes: all of them, but for a short
\* text under default alignment with the space pad, which writes the text only.
WrittenBy(i) ==
  LET t == TextCols(i)
      spec == layout.fieldSpecs[i]
  IN IF /\ Len(t) < specLen(spec)
        /\ spec.format.alignment = defaultAlignment
        /\ spec.format.padChar = 32
     THEN spec.startPos .. (spec.startPos + Len(t) - 1)
     ELSE spec.startPos .. spec.endPos

\* The columns two fields share.
Shared(i, j) ==
  {c \in layout.fieldSpecs[i].startPos .. layout.fieldSpecs[i].endPos :
     layout.fieldSpecs[j].startPos <= c /\ c <= layout.fieldSpecs[j].endPos}

\* The type has two valid fields that overlap, both of a type that encodes.
TwoOverlapping ==
  /\ pc # "idle" /\ Len(typ) = 2
  /\ layout.fieldSpecs[1].ok /\ layout.fieldSpecs[2].ok
  /\ Shared(1, 2) # {}
  /\ Encodable(1) /\ Encodable(2)

\* C5 as stated: where two valid fields overlap, every shared column of the
\* encoded line holds what the later-declared field produces for it.
C5_LaterFieldWins ==
  (TwoOverlapping /\ pc \in {"encoded", "decoded"}) =>
    \A c \in Shared(1, 2) :
      Columns(out, useCodepointIndices)[c]
        = FieldImage(2)[c - layout.fieldSpecs[2].startPos + 1]

\* C5: where two valid fields overlap, the later-declared field is written
\* last and replaces the shared columns its Write writes; the shared columns
\* it does not write (those past a short text under default alignment with
\* the space pad) keep what the earlier field wrote; and its Write panics in
\* the empty-right-aligned-at-the-end case and in no other.
C5_LaterFieldWinsWhereItWrites ==
  (TwoOverlapping /\ wrote = 2) =>
    /\ b.panic <=> EmptyRightAtEnd
    /\ ~b.panic =>
         \A c \in Shared(1, 2) :
           Columns(b.data, useCodepointIndices)[c]
             = IF c \in WrittenBy(2)
               THEN FieldImage(2)[c - layout.fieldSpecs[2].startPos + 1]
               ELSE Columns(prev.data, useCodepointIndices)[c]

\* C5's case: a later field under default alignment whose short text leaves
\* a shared column holding the earlier field's text.
C5_Witness ==
  /\ TwoOverlapping /\ wrote = 2 /\ pc = "encoded"
  /\ \E c \in Shared(1, 2) :
       /\ c \notin WrittenBy(2)
       /\ Columns(out, useCodepointIndices)[c] # <<32>>

\* ------------------------------------------------- fields with invalid tags

\* The fields of a sequence over the type's fields whose tag parseTag accepts.
Keep(seq) ==
  LET idxs == SelectSeq([i \in 1..Len(typ) |-> i], LAMBDA i : parseTag(typ[i].tag).ok)
  IN [k \in 1..Len(idxs) |-> seq[idxs[k]]]
\* The fields whose tag is missing or invalid.
Untagged == {i \in 1..Len(typ) : ~parseTag(typ[i].tag).ok}

\* C6: a field whose tag is missing or invalid takes no part: encoding gives
\* the line, or fails the way, it does for the type without that field, so the
\* field adds neither content nor length nor an error even when its type has
\* no encoder; decoding never hands it a raw value and leaves it as it was,
\* and sets the other fields as it does for the type without it.
C6_InvalidTagSkipped ==
  LET without == buildStructSpec(Keep(typ))
      enc == structEncode(without, Keep(rec), useCodepointIndices)
      dec == decodeLine(without, Keep(before), out, useCodepointIndices)
  IN /\ pc \in {"encoded", "decoded"} => (enc.status = "ok" /\ enc.line = out)
     /\ pc = "encodeError" => enc.status = "error"
     /\ pc = "panicked" => enc.status = "panic"
     /\ pc = "decoded" =>
          /\ dstatus = dec.status
          /\ Keep(target) = dec.v
          /\ \A i \in Untagged : target[i] = before[i] /\ ~raws[i].handed

\* C6's case: a line encoded from, and decoded into, a record with a used
\* field of a type that has no encoder and no tag.
C6_Witness ==
  /\ pc = "decoded" /\ dstatus = "ok"
  /\ \E i \in Untagged : typ[i].kind = "func" /\ before[i] # ZeroVal("func")
  /\ Keep(typ) # <<>>
  /\ Len(out) > 0

\* ---------------------------------------------------------------- round trip

\* Every field has a valid tag.
AllTagged == pc # "idle" /\ \A i \in 1..Len(typ) : layout.fieldSpecs[i].ok
\* Every field's text fits its width.
AllFit == \A i \in 1..Len(typ) : Encodable(i) /\ Len(TextCols(i)) <= specLen(layout.fieldSpecs[i])
\* The decode started from a fresh record.
FreshTarget == before = [i \in 1..Len(typ) |-> ZeroVal(typ[i].kind)]

EdgesKept(i) ==
  LET t == encodeValue(rec[i], useCodepointIndices).v.data
      f == layout.fieldSpecs[i].format
  IN t = <<>> \/ /\ f.alignment = left => t[Len(t)] # f.padChar
                 /\ f.alignment = right => t[1] # f.padChar
                 /\ f.alignment = defaultAlignment =>
                      (t[1] # f.padChar /\ t[Len(t)] # f.padChar)
\* No two fields share a column.
Disjoint == \A i, j \in 1..Len(typ) : i # j => Shared(i, j) = {}
\* The records C1 is about.
RoundTrippable ==
  /\ AllTagged /\ rec # <<>>
  /\ \A i \in 1..Len(typ) : typ[i].kind \in {"string", "int", "uint", "bool"}
  /\ AllFit /\ Disjoint
  /\ \A i \in 1..Len(typ) : EdgesKept(i)

TagParts == SplitComma(typ[1].tag)
TagSpec == layout.fieldSpecs[1]
HasSpace(s) == \E k \in 1..Len(s) : s[k] = 32
\* The tag "s,e" of two position parts.
PosTag(s, e) == s \o <<44>> \o e
\* The tag's start part is a number below 1.
StartBelowOne == Atoi(TagParts[1]).ok /\ Atoi(TagParts[1]).n < 1
\* The tag's first two parts make a valid tag with positions from 1 up.
PositionsValid ==
  Len(TagParts) >= 2 /\ parseTag(PosTag(TagParts[1], TagParts[2])).ok /\ ~StartBelowOne

\* C7: a tag parseTag reports valid, and so a field spec marked ok in a cached
\* layout, has 1 <= startPos <= endPos.
C7_ValidTagPositions ==
  pc = "cached" =>
    \A i \in 1..Len(typ) :
      /\ parseTag(typ[i].tag).ok =>
           (1 <= parseTag(typ[i].tag).startPos
              /\ parseTag(typ[i].tag).startPos <= parseTag(typ[i].tag).endPos)
      /\ layout.fieldSpecs[i].ok =>
           (1 <= layout.fieldSpecs[i].startPos
              /\ layout.fieldSpecs[i].startPos <= layout.fieldSpecs[i].endPos)

\* C8: the fourth part of a tag (one with valid positions from 1 up) resolves
\* to one pad byte: "_" is the space, "__" the underscore, any other one-byte
\* part that byte; any other part longer than one byte makes the tag invalid.
C8_PadIsOneByte ==
  (pc = "cached" /\ Len(TagParts) = 4 /\ PositionsValid) =>
    LET tok == TagParts[4] IN
    /\ tok = <<95>> => (TagSpec.ok /\ TagSpec.format.padChar = 32)
    /\ tok = <<95, 95>> => (TagSpec.ok /\ TagSpec.format.padChar = 95)
    /\ (Len(tok) = 1 /\ tok # <<95>>) => (TagSpec.ok /\ TagSpec.format.padChar = tok[1])
    /\ (Len(tok) > 1 /\ tok # <<95, 95>>) => ~TagSpec.ok

\* C9 as stated: a tag with a space anywhere in it is invalid (stated for
\* the tags whose start part is not a number below 1).
C9_SpaceInvalidates ==
  (pc = "cached" /\ HasSpace(typ[1].tag) /\ ~StartBelowOne) => ~TagSpec.ok

\* C9: a tag with a space in its start or end part is invalid; a space in the
\* alignment part only leaves the alignment at its default, and a pad part
\* that is one space makes the space the pad character: the tag stays valid.
C9_SpaceInPositionInvalidates ==
  pc = "cached" =>
    /\ (HasSpace(TagParts[1]) \/ (Len(TagParts) >= 2 /\ HasSpace(TagParts[2])))
         => ~TagSpec.ok
    /\ (Len(TagParts) = 3 /\ PositionsValid /\ HasSpace(TagParts[3]))
         => (TagSpec.ok /\ TagSpec.format.alignment = defaultAlignment)
    /\ (Len(TagParts) = 4 /\ PositionsValid /\ TagParts[4] = <<32>>)
         => (TagSpec.ok /\ TagSpec.format.padChar = 32)

\* C9's case: a tag of four parts that a space in a position part makes
\* invalid: without its spaces it is valid.
C9_Witness ==
  /\ pc = "cached" /\ Len(TagParts) = 4
  /\ HasSpace(TagParts[1]) \/ HasSpace(TagParts[2])
  /\ ~TagSpec.ok
  /\ parseTag(SelectSeq(typ[1].tag, LAMBDA c : c # 32)).ok

\* --------------------------------------------------- the text a field gets

\* The pad characters a text begins with, and ends with.
LeadingPads(s, c) ==
  CHOOSE k \in 0..Len(s) : (\A j \in 1..k : s[j] = c) /\ (k = Len(s) \/ s[k + 1] # c)
TrailingPads(s, c) ==
  CHOOSE k \in 0..Len(s) :
    (\A j \in 1..k : s[Len(s) + 1 - j] = c) /\ (k = Len(s) \/ s[Len(s) - k] # c)
\* A text without the pad characters on the sides its alignment trims.
Trimmed(s, format) ==
  LET l == IF format.alignment = left THEN 0 ELSE LeadingPads(s, format.padChar)
      rest == SubSeq(s, l + 1, Len(s))
      r == IF format.alignment = right THEN 0 ELSE TrailingPads(rest, format.padChar)
  IN SubSeq(rest, 1, Len(rest) - r)
\* Columns startPos..min(endPos, n) of the line, as bytes.
UnitsOf(spec) ==
  LET cols == Columns(out, useCodepointIndices) IN
  IF spec.startPos > Len(cols) THEN <<>>
  ELSE Concat(SubSeq(cols, spec.startPos, Min(spec.endPos, Len(cols))))

\* C2: the text a valid field's converter is handed is columns
\* startPos..min(endPos, n) of the line (none when startPos > n), bytes in byte
\* mode and codepoints in codepoint mode, without the pad characters on both
\* sides under default alignment, on the right under left alignment and on
\* the left under right alignment. It is about the lines that reach the
\* fields: an input with no line does not get that far.
C2_RawValueFromLine ==
  (pc = "lineDecoded" /\ out # <<>>) =>
    /\ dstatus = "ok"
    /\ \A i \in 1..Len(typ) :
         layout.fieldSpecs[i].ok =>
           /\ raws[i].handed
           /\ raws[i].v.data = Trimmed(UnitsOf(layout.fieldSpecs[i]),
                                       layout.fieldSpecs[i].format)

\* C2's case: in codepoint mode, a field that ends past the end of a line
\* with a multibyte codepoint before the field, and gets the line's columns
\* from its start on with their padding trimmed.
C2_Witness ==
  /\ pc = "lineDecoded" /\ useCodepointIndices
  /\ Len(out) > 0 /\ Len(Columns(out, TRUE)[1]) > 1
  /\ TagSpec.startPos > 1 /\ TagSpec.endPos > Len(Columns(out, TRUE))
  /\ raws[1].handed
  /\ Len(raws[1].v.data) < Len(UnitsOf(TagSpec))

\* ------------------------------------------------------------ end of data

\* Where the first line terminator of a stream begins (0: there is none).
FirstTerminator(data, term) ==
  LET at == {i \in 1..(Len(data) - Len(term) + 1) : SubSeq(data, i, i + Len(term) - 1) = term}
  IN IF at = {} THEN 0 ELSE CHOOSE i \in at : \A j \in at : i <= j

RECURSIVE LinesIn(_, _)
\* The lines a stream holds: the texts its terminators end, and the text
\* after the last one when there is any.
LinesIn(data, term) ==
  IF data = <<>> THEN 0
  ELSE LET i == FirstTerminator(data, term) IN
       IF i = 0 THEN 1
       ELSE 1 + LinesIn(SubSeq(data, i + Len(term), Len(data)), term)

\* C10: on a stream of n lines, the first n Decode calls for one record do
\* not return io.EOF (they return nil or an error, or panic on an empty
\* line), and every call after them returns io.EOF and leaves its
\* target as it was, whether or not the last line ends with a terminator.
C10_EOFAfterLastLine ==
  calls > 0 =>
    LET n == LinesIn(input, lineTerminator) IN
    /\ calls <= n => ret \in {"nil", "error", "panic"}
    /\ calls > n => (ret = "EOF" /\ target = before)

\* C10's case: the call after the last of several lines, the last one not
\* ended by a terminator, returns io.EOF and leaves alone a target the calls
\* before it had set.
C10_Witness ==
  /\ calls = LinesIn(input, lineTerminator) + 1
  /\ calls > 2
  /\ FirstTerminator(SubSeq(input, Len(input) + 1 - Len(lineTerminator), Len(input)),
                     lineTerminator) = 0
  /\ ret = "EOF"
  /\ target = before
  /\ target # [i \in 1..Len(typ) |-> DirtyVal(typ[i].kind)]

\* ---------------------------------------------------------- all the lines

RECURSIVE SplitLines(_, _)
\* The lines of a stream: the segments between full terminators, with no
\* line after a terminator that ends the stream.
SplitLines(data, term) ==
  IF data = <<>> THEN <<>>
  ELSE LET i == FirstTerminator(data, term) IN
       IF i = 0 THEN <<data>>
       ELSE <<SubSeq(data, 1, i - 1)>> \o SplitLines(SubSeq(data, i + Len(term), Len(data)), term)

\* The decode of one line into a new zero record.
LineRecord(line) ==
  decodeLine(layout, [i \in 1..Len(typ) |-> ZeroVal(typ[i].kind)], line, useCodepointIndices)

\* C11: a Decode for all lines appends to its slice, in input order, one
\* record for each line left in the input, the lines being the segments
\* between full line terminators: none for an empty input, none after a
\* terminator that ends the input; it returns nil, unless a line fails to
\* convert, and then it stops with that line's error after the records of the
\* lines before it.
C11_OneRecordPerLine ==
  op = "all" =>
    LET lines == SplitLines(restBefore, lineTerminator)
        bad == {i \in 1..Len(lines) : LineRecord(lines[i]).status # "ok"}
        k == IF bad = {} THEN Len(lines) ELSE (CHOOSE i \in bad : \A j \in bad : i <= j) - 1
    IN /\ ret = (IF bad = {} THEN "nil" ELSE "error")
       /\ slice = sliceBefore \o [i \in 1..k |-> LineRecord(lines[i]).v]

\* C11's case: under the terminator "\r\n", a Decode for all lines appends
\* two records to a slice that held one: a zero record for an empty line, and
\* the record of a last line that holds a lone "\r".
C11_Witness ==
  /\ op = "all" /\ ret = "nil"
  /\ lineTerminator = <<13, 10>>
  /\ sliceBefore # <<>>
  /\ Len(slice) = Len(sliceBefore) + 2
  /\ slice[Len(sliceBefore) + 1] = [j \in 1..Len(typ) |-> ZeroVal(typ[j].kind)]
  /\ slice[Len(sliceBefore) + 2][1].s = <<13>>

\* ------------------------------------------------------ all the records

RECURSIVE Joined(_, _)
\* Lines with a terminator between every two of them.
Joined(lines, term) ==
  IF lines = <<>> THEN <<>>
  ELSE IF Len(lines) = 1 THEN lines[1]
  ELSE lines[1] \o term \o Joined(Tail(lines), term)

\* The encoded lines of the records the last Encode call was handed.
RecLines == [i \in 1..Len(recs) |-> structEncode(layout, recs[i].v, useCodepointIndices).line]
\* The last Encode call returned nil.
Encoded == pc = "encoder" /\ calls > 0 /\ ret = "nil"

\* C12: an Encode of a slice of n records that returns nil has written to
\* the stream the n encoded lines in order, with the line terminator between
\* every two of them and none after the last, and nothing for n = 0.
C12_LinesJoined ==
  Encoded => sink = sinkBefore \o Joined(RecLines, lineTerminator)

\* What holds of every Encode call: one that returns nil writes what the
\* bufio.Writer held before the call and then the joined lines, and one that
\* fails writes nothing to the stream.
LinesJoinedAfterLeftovers ==
  (pc = "encoder" /\ calls > 0) =>
    IF ret = "nil"
    THEN sink = sinkBefore \o wBefore \o Joined(RecLines, lineTerminator) /\ w = <<>>
    ELSE sink = sinkBefore

\* An Encode of several records on an Encoder that holds nothing from
\* earlier calls, under the terminator "\r\n".
LinesJoinedCase ==
  /\ Encoded /\ wBefore = <<>>
  /\ Len(recs) = MaxRecs /\ lineTerminator = <<13, 10>>
  /\ sink # sinkBefore

\* ------------------------------------------------------- Decode's targets

\* The last Decode call read nothing from the input.
NothingRead == buf \o unread = restBefore /\ target = before

TypeErrorReturned == pc = "stream" /\ op = "one" /\ ret = "error" /\ dstatus = "error"

\* C14: the UnmarshalTypeError a decode returns names the field that failed
\* to convert and its type, and its Value is the text of that field's
\* interval.
C14_ValueIsFieldText ==
  TypeErrorReturned =>
    /\ uerr.Field \in 1..Len(typ)
    /\ uerr.Type = typ[uerr.Field].kind
    /\ uerr.Value = raws[uerr.Field].v.data

\* What holds instead: the error names the failing field and its type, and
\* its Value is the whole line.
ValueIsWholeLine ==
  TypeErrorReturned =>
    /\ uerr.Field \in 1..Len(typ)
    /\ uerr.Type = typ[uerr.Field].kind
    /\ raws[uerr.Field].handed
    /\ uerr.Value = out

\* ----------------------------------------------------------- number fields

\* A text is decimal: digits, after a "-" or not.
IsDecimal(s) ==
  /\ s # <<>>
  /\ \A k \in 1..Len(s) : IsDigit(s[k]) \/ (k = 1 /\ s[k] = 45 /\ Len(s) > 1)
RECURSIVE DigitsValue(_)
\* The number that digits denote.
DigitsValue(s) ==
  IF s = <<>> THEN 0 ELSE 10 * DigitsValue(SubSeq(s, 1, Len(s) - 1)) + (s[Len(s)] - 48)
\* The number a decimal text denotes.
Denoted(s) == IF s[1] = 45 THEN 0 - DigitsValue(Tail(s)) ELSE DigitsValue(s)
\* The numbers a field of an integer kind holds.
RangeOf(kind) ==
  CASE kind = "int8" -> -128..127
    [] kind = "uint8" -> 0..255
    [] kind = "uint" -> 0..(10 ^ (MaxPos + 1))
    [] OTHER -> (0 - 10 ^ (MaxPos + 1))..(10 ^ (MaxPos + 1))
\* An integer field was handed a decimal text.
DecimalHanded ==
  /\ pc = "lineDecoded" /\ typ \in NumberTypes
  /\ raws[1].handed /\ IsDecimal(raws[1].v.data)

\* C15: an integer field of any width that is handed a decimal text either
\* holds the number the text denotes afterwards, or the decode returned a
\* conversion error and the field is as it was.
C15_ExactOrError ==
  DecimalHanded =>
    \/ dstatus = "ok" /\ target[1].n = Denoted(raws[1].v.data)
    \/ dstatus = "error" /\ target = before

\* What holds of every width: a number in the field's range is stored as it
\* is, a negative one is an error for an unsigned field, and any other is
\* stored without an error as its low 8 bits in an int8 or uint8 field.
StoredModuloWidth ==
  DecimalHanded =>
    LET n == Denoted(raws[1].v.data)
        kind == typ[1].kind
    IN IF n \in RangeOf(kind) THEN dstatus = "ok" /\ target[1].n = n
       ELSE IF kind \in {"uint", "uint8"} /\ raws[1].v.data[1] = 45
       THEN dstatus = "error" /\ target = before
       ELSE /\ dstatus = "ok"
            /\ target[1].n \in RangeOf(kind)
            /\ (target[1].n - n) % 256 = 0

\* ------------------------------------------------------------ empty fields

\* An integer or bool field's interval was empty or held only pad characters.
EmptyHanded ==
  /\ pc = "lineDecoded" /\ typ \in NumberTypes \cup BoolTypes
  /\ raws[1].handed /\ raws[1].v.data = <<>>

\* C16: the decode of an empty or all-pad interval into an integer or bool
\* field returns no error and leaves the field at its type's zero value,
\* whatever the field held before.
C16_EmptyGivesZero ==
  EmptyHanded => (dstatus = "ok" /\ target[1] = ZeroVal(typ[1].kind))

\* What holds instead: no error, and the field holds what it held before.
EmptyLeavesField ==
  EmptyHanded => (dstatus = "ok" /\ target = before)

\* ---------------------------------------------------------- pointer fields

\* A pointer field was handed its interval's text.
PtrHanded == pc = "lineDecoded" /\ typ \in PtrTypes /\ raws[1].handed
\* What the field points to before its inner converter runs: what it pointed
\* to, or newly allocated storage.
ElemBefore ==
  IF before[1].nil THEN Val(ElemKind(typ[1].kind), <<>>, 0, FALSE) ELSE before[1].elem
\* The inner converter has been applied to a non-empty text.
InnerApplied ==
  LET text == raws[1].v.data
      kind == ElemKind(typ[1].kind)
  IN /\ ~target[1].nil
     /\ IF kind = "int" /\ ~IsDecimal(text) /\ ~(text[1] = 43 /\ IsDecimal(Tail(text)))
        THEN dstatus = "error" /\ target[1].elem = ElemBefore
        ELSE /\ dstatus = "ok"
             /\ target[1].elem =
                  IF kind = "int" THEN [ElemBefore EXCEPT !.n = Denoted(text)]
                  ELSE [ElemBefore EXCEPT !.s = text]

\* C17: whatever a pointer field points to, the decode of an empty interval
\* leaves the field nil and returns no error, and the decode of a non-empty
\* one leaves it pointing to what its inner converter made of the storage it
\* pointed to, or of new storage if it was nil.
C17_EmptyGivesNil ==
  PtrHanded =>
    IF raws[1].v.data = <<>> THEN dstatus = "ok" /\ target[1].nil ELSE InnerApplied

\* What holds instead: so it is for pointers to a string and to an int; a
\* pointer to a type with UnmarshalText is allocated if it was nil and has
\* UnmarshalText called with the empty text.
EmptyGivesNilUnlessUnmarshaler ==
  PtrHanded =>
    IF raws[1].v.data # <<>> THEN InnerApplied
    ELSE /\ dstatus = "ok"
         /\ IF typ[1].kind # "*text" THEN target[1].nil
            ELSE ~target[1].nil /\ target[1].elem = [ElemBefore EXCEPT !.s = <<>>]

\* ------------------------------------------------------------ nil pointers

\* The last Write was for a pointer field that is nil.
NilWritten == wrote > 0 /\ typ[wrote].kind \in PtrKinds /\ rec[wrote].nil

\* C18: the Write of a nil pointer field, whatever it points to, returns no
\* error and leaves the pad character in every column of the field's
\* interval.
C18_NilGivesPadding ==
  NilWritten =>
    /\ pc # "encodeError"
    /\ ~b.panic
    /\ IntervalOf(b, LastSpec) = PadCols(LastWidth, LastSpec.format.padChar)

\* What holds instead: a nil pointer to a type with MarshalText on its value
\* panics; a nil pointer to a string or an int is written as the empty text
\* is, which leaves the interval as it was under default alignment with the
\* space pad, and panics where an empty text does.
NilWrittenAsEmptyText ==
  NilWritten =>
    /\ pc # "encodeError"
    /\ IF typ[wrote].kind = "*text" THEN b.panic
       ELSE /\ b.panic <=> EmptyRightAtEnd
            /\ ~b.panic => IntervalOf(b, LastSpec) = ShortImage

\* ---------------------------------------------------------- malformed text

RECURSIVE WellFormed(_)
\* A string is well formed UTF-8.
WellFormed(s) ==
  LET cont(k) == Len(s) >= k /\ s[k] >= 128 /\ s[k] <= 191
      rest(k) == SubSeq(s, k + 1, Len(s))
  IN \/ s = <<>>
     \/ s # <<>> /\ s[1] < 128 /\ WellFormed(rest(1))
     \/ s # <<>> /\ s[1] >= 194 /\ s[1] <= 223 /\ cont(2) /\ WellFormed(rest(2))
     \/ /\ s # <<>> /\ s[1] >= 224 /\ s[1] <= 239 /\ cont(2) /\ cont(3)
        /\ (s[1] = 224 => s[2] >= 160) /\ (s[1] = 237 => s[2] <= 159)
        /\ WellFormed(rest(3))
     \/ /\ s # <<>> /\ s[1] >= 240 /\ s[1] <= 244 /\ cont(2) /\ cont(3) /\ cont(4)
        /\ (s[1] = 240 => s[2] >= 144) /\ (s[1] = 244 => s[2] <= 143)
        /\ WellFormed(rest(4))

\* A line with a malformed sequence was decoded in codepoint mode.
MalformedDecoded ==
  /\ pc = "lineDecoded" /\ useCodepointIndices
  /\ out \in MalformedLines /\ ~WellFormed(out)

\* C19: in codepoint mode the decode of a line that holds a malformed UTF-8
\* sequence fails with the "Invalid codepoint" error.
C19_MalformedRejected ==
  MalformedDecoded => dstatus = "codepoint"

\* What holds instead: the decode goes on with no error, every byte of a
\* malformed sequence counting as one codepoint.
MalformedBytesAreCodepoints ==
  MalformedDecoded =>
    /\ dstatus = "ok"
    /\ raws[1].handed
    /\ raws[1].v.data = Trimmed(UnitsOf(layout.fieldSpecs[1]), layout.fieldSpecs[1].format)

\* ------------------------------------------------------ the layout cache

\* Every goroutine that has returned from cachedStructSpec holds the cache's
\* one entry, which is the type's struct spec.
CallersAgree ==
  \A p \in Procs :
    ppc[p] = "returned" =>
      /\ cacheBy # 0
      /\ got[p] = Entry(layout, cacheBy)
      /\ layout = buildStructSpec(typ)
\* An entry, once stored, stays as it is.
EntryKept == cacheBy # 0 => (cacheBy' = cacheBy /\ layout' = layout)

\* C20: under any interleaving of cachedStructSpec calls for one type, every
\* caller is returned the same layout, the cache holds one entry for the type
\* when a caller has returned, and an entry once stored is never replaced or
\* removed.
C20_OneLayoutForAll ==
  []CallersAgree /\ [][EntryKept]_vars

\* C20's case: two goroutines raced on the type's first use, both missed the
\* Load and built a struct spec, and both have returned the one that was
\* stored first.
C20_Witness ==
  /\ pc = "cache"
  /\ \A p \in Procs : ppc[p] = "returned" /\ built[p] # NoLayout
  /\ \A p, q \in Procs : got[p] = got[q]
  /\ \E p \in Procs : got[p].by # p

\* ----------------------------------------------------------- nested records

\* The field of the type that holds a record, and its spec.
NestedField == CHOOSE i \in 1..Len(typ) : typ[i].kind = "struct"
OuterSpec == layout.fieldSpecs[NestedField]
InnerSpecs == buildStructSpec(InnerType).fieldSpecs
\* A line encoded from a record with a nested record was decoded.
NestedDecoded == pc = "decoded" /\ typ \in NestedTypes
\* The columns of the line at inner field j's positions, counted from the
\* first column of the outer field's interval and within it.
InnerUnits(j) ==
  LET cols == Columns(out, useCodepointIndices)
      from == OuterSpec.startPos + InnerSpecs[j].startPos - 1
      to == Min(Min(OuterSpec.startPos + InnerSpecs[j].endPos - 1, OuterSpec.endPos), Len(cols))
  IN IF from > to THEN <<>> ELSE Concat(SubSeq(cols, from, to))
\* The texts of the nested record fit their fields and keep their edges under
\* decoding's trim, and so does the text of the string field before it.
NestedFits ==
  /\ \A j \in 1..Len(InnerType) :
       LET t == rec[NestedField].fields[j].s IN
       /\ Len(Columns(t, useCodepointIndices)) <= specLen(InnerSpecs[j])
       /\ t = <<>> \/ (t[1] # 32 /\ t[Len(t)] # 32)
  /\ \A i \in 1..Len(typ) : typ[i].kind = "string" => (AllFit /\ EdgesKept(i))

\* C21: the decode of a line into a record with a nested record hands each
\* inner field the columns at its positions counted from the first column of
\* the outer field's interval, in byte mode and in codepoint mode, so that a
\* nested record whose texts fit decodes from the line it was encoded to into
\* a fresh record with the same inner field values.
C21_NestedAtItsColumns ==
  NestedDecoded =>
    /\ dstatus = "ok"
    /\ \A j \in 1..Len(InnerType) :
         target[NestedField].fields[j].s = Trimmed(InnerUnits(j), InnerSpecs[j].format)
    /\ (NestedFits /\ FreshTarget) => target[NestedField] = rec[NestedField]

\* The inner field j's text as structSetter finds it in byte mode: the
\* columns at its positions counted from the first column of the outer
\* interval's text after that text was trimmed for the outer field.
InnerUnitsOfTrimmed(j) ==
  LET sub == Trimmed(UnitsOf(OuterSpec), OuterSpec.format) IN
  IF InnerSpecs[j].startPos > Len(sub) THEN <<>>
  ELSE SubSeq(sub, InnerSpecs[j].startPos, Min(InnerSpecs[j].endPos, Len(sub)))
\* What holds instead, in byte mode: the inner fields' positions are counted
\* in the outer interval's text once the outer field's pad characters are
\* trimmed off it, and a nested record that gets no text is left as it was.
NestedInTrimmedText ==
  (NestedDecoded /\ ~useCodepointIndices) =>
    /\ dstatus = "ok"
    /\ \A j \in 1..Len(InnerType) :
         target[NestedField].fields[j].s =
           Trimmed(InnerUnitsOfTrimmed(j), InnerSpecs[j].format)

\* ---------------------------------------------------- the two index modes

\* A string holds ASCII bytes only.
IsAscii(s) == \A k \in 1..Len(s) : s[k] < 128
\* The record handed to Marshal holds ASCII texts only.
AsciiRecord == rec # <<>> /\ \A i \in 1..Len(rec) : IsAscii(rec[i].s)
\* How the run's Marshal stands, as structEncoder's status.
EncodeStatus ==
  CASE pc = "encodeError" -> "error" [] pc = "panicked" -> "panic" [] OTHER -> "ok"
\* The run's decode gave what the decode of the same line into the same
\* target gives in the other mode.
SameDecode ==
  LET d == unmarshal(layout, before, out, ~useCodepointIndices) IN
  d.status = dstatus /\ d.v = target /\ d.uerr = uerr

\* C22: on a record and on a line of ASCII bytes only, the run's mode gives
\* what the other mode gives: the same encoded line or the same failure, and
\* the same decoded field values or the same error.
C22_ModesAgreeOnAscii ==
  /\ (pc \in {"encoded", "decoded", "encodeError", "panicked"} /\ AsciiRecord) =>
       LET e == structEncode(layout, rec, ~useCodepointIndices) IN
       e.status = EncodeStatus /\ (e.status = "ok" => e.line = out)
  /\ (pc = "decoded" /\ AsciiRecord) => SameDecode
  /\ (pc = "lineDecoded" /\ IsAscii(out)) => SameDecode

\* C22's case: in codepoint mode, a record of two ASCII texts that share a
\* column was encoded and its line decoded.
C22_Witness ==
  /\ pc = "decoded" /\ useCodepointIndices /\ AsciiRecord
  /\ TwoOverlapping
  /\ rec[1].s = CpA /\ rec[2].s = CpA
  /\ dstatus = "ok"

\* ------------------------------------------------- after a conversion error

RECURSIVE DropLines(_, _, _)
\* A stream without its first k lines and their terminators.
DropLines(data, term, k) ==
  IF k = 0 \/ data = <<>> THEN data
  ELSE LET i == FirstTerminator(data, term) IN
       IF i = 0 THEN <<>>
       ELSE DropLines(SubSeq(data, i + Len(term), Len(data)), term, k - 1)

\* The last Decode call for one record returned a conversion error.
ConversionError == pc = "stream" /\ op = "one" /\ ret = "error"
\* Such a call has consumed the stream up to the end of the line it was for,
\* the line of its rank among the calls, and no further.
ErrorConsumedItsLine ==
  ConversionError =>
    LET lines == SplitLines(input, lineTerminator) IN
    /\ calls <= Len(lines)
    /\ out = lines[calls]
    /\ buf \o unread = DropLines(input, lineTerminator, calls)
\* The call after it decodes the following line as a decode of that line on
\* its own does, or returns io.EOF when no line remains.
NextAfterError ==
  (ConversionError /\ calls' = calls + 1) =>
    LET lines == SplitLines(input, lineTerminator) IN
    IF calls < Len(lines)
    THEN /\ out' = lines[calls + 1]
         /\ LET r == decodePtrLine(layout', target, out', useCodepointIndices)
            IN target' = r.v /\ ret' = lineErr(r.status)
    ELSE ret' = "EOF" /\ target' = target

\* C23: a Decode call for one record that returns a conversion error has
\* consumed exactly the line that failed, and the next call on the Decoder
\* decodes the line after it, or returns io.EOF when there is none, as if the
\* failure had not happened.
C23_ErrorConsumesOneLine ==
  []ErrorConsumedItsLine /\ [][NextAfterError]_vars

\* C23's case: the call after one that failed on the line before has decoded
\* its own line into the int field.
C23_Witness ==
  /\ pc = "stream" /\ op = "one" /\ calls >= 2 /\ ret = "nil"
  /\ typ[1].kind = "int"
  /\ LET lines == SplitLines(input, lineTerminator) IN
     /\ calls <= Len(lines)
     /\ decodePtrLine(layout, before, lines[calls - 1], useCodepointIndices).status = "error"
     /\ out = lines[calls]
  /\ target[1].n = 1

\* ------------------------------------------------- decode, encode and decode

\* C24: whatever the input, the scalar kind of the field and the index mode,
\* when the decode of the input returned no error, the encode of the decoded
\* record returns no error either, and so does the decode of what it wrote.
C24_DecodedEncodesAndDecodes ==
  /\ pc = "fuzzEncoded" => ret = "nil"
  /\ pc = "fuzzDone" => dstatus = "ok"

\* An integer that wrapped around to more characters than the field has went
\* through all three steps, the second decode reading the line's cut text.
C24_Witness ==
  /\ pc = "fuzzDone"
  /\ typ = FuzzType("int16")
  /\ Len(Itoa(rec[1].n)) > MaxWidth
  /\ target[1].n # rec[1].n
  /\ dstatus = "ok"

\* ------------------------------------------------- a line builder on its own

RECURSIVE Offsets(_, _)
\* The byte offset of each codepoint of a string that starts at offset at.
Offsets(data, at) ==
  IF data = <<>> THEN <<>>
  ELSE LET n == DecodeRuneSize(data)
       IN <<at>> \o Offsets(SubSeq(data, n + 1, Len(data)), at + n)

\* The builder holds the n codepoints it was made with and, when it has an
\* index, the index is the byte offset of each of them.
BuilderSound ==
  /\ ~b.panic
  /\ Len(Runes(b.data)) = layout.ll
  /\ b.hasIdx =>
       /\ Len(b.idx) = layout.ll
       /\ \A k \in 1..Len(b.idx) - 1 : b.idx[k] < b.idx[k + 1]
       /\ b.idx = Offsets(b.data, 0)

\* C25: after any writes within the line, zero-length ones included, the
\* builder holds exactly the n codepoints it was made with, and its index,
\* once there is one, has n strictly increasing entries, the byte offset of
\* each codepoint.
C25_BuilderKeepsItsColumns ==
  pc \in {"builder", "panicked"} => BuilderSound

\* The write the builder does not survive: an empty value at the column past
\* the last, into a builder that has an index.
EmptyPastTheLast ==
  /\ wrote = layout.ll + 1
  /\ rec[1].s = <<>>
  /\ prev.hasIdx

\* A write panics in that case and in no other, and every other write leaves
\* the builder sound.
BuilderSoundUnlessEmptyPastTheLast ==
  pc \in {"builder", "panicked"} /\ calls > 0 =>
    /\ b.panic <=> EmptyPastTheLast
    /\ ~b.panic => BuilderSound

\* ------------------------------------------------------- building a layout

\* C26: the build of the layout of a record type returns, for a type with a
\* validly tagged pointer back to itself, or to a record type that points
\* back to it, as for any other.
C26_LayoutBuildReturns == <>(pc = "built")

\* A validly tagged field of T that is a pointer to T, a pointer to P or a P.
RefersBack ==
  \E i \in 1..Len(typ) : parseTag(typ[i].tag).ok /\ RecordOf(typ[i].kind) \in {"T", "P"}

\* A type with such a field was being built, and the stack overflowed.
LayoutOverflowed == pc = "overflow" /\ RefersBack

\* The build returns for the types with no such field, and for the others it
\* ends in the stack's overflow.
LayoutBuildReturnsUnlessRefersBack ==
  /\ ~RefersBack => <>(pc = "built")
  /\ RefersBack => <>[](pc = "overflow")

\* ------------------------------------------------------------- empty lines

\* A record of typ as reflect.New makes it.
FreshRecord == [i \in 1..Len(typ) |-> ZeroVal(typ[i].kind)]
\* The step is a Decode call for one record, and the line the scanner hands
\* it is empty.
DecodesEmptyLine ==
  /\ op' = "one" /\ calls' = calls + 1
  /\ LET s == scannerScan(lineTerminator, buf, unread, atEOF, chunk)
     IN s.ok /\ s.token = <<>>

\* C27: a Decode for one record whose line is empty returns nil and leaves a
\* fresh target as the record a Decode for all lines appends for that line:
\* every field at its zero value.
C27_EmptyLineGivesZeroRecord ==
  [][(DecodesEmptyLine /\ target = FreshRecord) =>
       /\ ret' = "nil"
       /\ target' = decodeLine(buildStructSpec(typ), FreshRecord, <<>>,
                               useCodepointIndices).v
       /\ target' = FreshRecord]_vars

\* Such a call panics instead, whatever the target holds, and the line is
\* consumed; a Decode for all lines appends the zero record for it.
EmptyLinePanicsForOne ==
  [][DecodesEmptyLine =>
       /\ ret' = "panic"
       /\ target' = target
       /\ out' = <<>>
       /\ decodeLine(buildStructSpec(typ), FreshRecord, <<>>, useCodepointIndices)
            = [status |-> "ok", v |-> FreshRecord,
               raws |-> [i \in 1..Len(typ) |-> [handed |-> TRUE, v |-> EmptyRaw]],
               uerr |-> NoTypeError]]_vars

\* --------------------------------------------------- no field with a tag

\* A Marshal has started on a record whose type has no validly tagged field:
\* the layout's line length is 0.
NoFieldMarshalled ==
  /\ pc \in {"encoding", "encoded", "encodeError", "panicked", "decoded"}
  /\ \A i \in 1..Len(typ) : ~parseTag(typ[i].tag).ok

\* C28: encoding a record whose type has no validly tagged field returns no
\* error and gives an empty line.
C28_NoFieldGivesEmptyLine ==
  NoFieldMarshalled =>
    /\ layout.ll = 0
    /\ pc \notin {"panicked", "encodeError"}
    /\ pc \in {"encoded", "decoded"} => out = <<>>

\* Such a Marshal panics in newLineBuilder, before any field is looked at.
NoFieldPanics ==
  NoFieldMarshalled => (layout.ll = 0 /\ pc = "panicked" /\ b.panic /\ fi = 1 /\ wrote = 0)

\* ------------------------------------------------------ one record a call

\* The line of the i-th record that an Encode call wrote, and the record a
\* decode of that line gives.
CallLine(i) == structEncode(layout, recs[i].v, useCodepointIndices).line
CallRecord(i) ==
  decodeLine(layout, [k \in 1..Len(typ) |-> ZeroVal(typ[k].kind)], CallLine(i),
             useCodepointIndices).v

\* C29: the lines of the records written by successive Encode calls on one
\* Encoder are separated by the terminator, and a Decode for all lines of
\* what was written gives one record for each call, in the order of the calls.
C29_OneLineForEachCall ==
  /\ pc = "encoder" =>
       sink = Joined([i \in 1..Len(recs) |-> CallLine(i)], lineTerminator)
  /\ pc = "decodedOutput" =>
       slice = [i \in 1..Len(recs) |-> CallRecord(i)]

\* What the calls write: the lines one after the other with nothing between
\* them, so that the calls' lines read as one line.
LinesRunTogether ==
  /\ pc \in {"encoder", "decodedOutput"} =>
       sink = Concat([i \in 1..Len(recs) |-> CallLine(i)])
  /\ (pc = "decodedOutput" /\ Len(recs) > 0) => Len(slice) <= 1

\* ------------------------------------------------------ after a failed call

\* The lines of the records rs joined by the terminator: what an Encode call
\* that is handed rs produces.
Produced(rs) ==
  Joined([i \in 1..Len(rs) |->
            structEncode(buildStructSpec(typ), rs[i].v, useCodepointIndices).line],
         lineTerminator)

\* The step is an Encode call that returns nil right after one that returned
\* an error.
SucceedsAfterFailure ==
  /\ pc = "encoder" /\ calls > 0 /\ ret = "error"
  /\ calls' = calls + 1 /\ ret' = "nil"

\* C30: the bytes of an Encode call that returns an error do not reach the
\* stream: not when the call returns, and not when the next call returns nil
\* and flushes, which gives the stream its own lines and nothing else.
C30_FailedCallWritesNothing ==
  /\ []((pc = "encoder" /\ calls > 0 /\ ret = "error") => sink = sinkBefore)
  /\ [][SucceedsAfterFailure => \E rs \in {recs'} : sink' = sink \o Produced(rs)]_vars

\* What the code does: the failed call's bytes stay in the bufio.Writer, and
\* the next call that returns nil gives them to the stream ahead of its own
\* lines.
FailedCallBytesFlushedLater ==
  /\ []((pc = "encoder" /\ calls > 0 /\ ret = "error") => sink = sinkBefore)
  /\ [][SucceedsAfterFailure => \E rs \in {recs'} : sink' = sink \o w \o Produced(rs)]_vars

====
